---- MODULE Spec2Model ----
(***************************************************************************)
(* A model of the NYC taxi / ASOS weather ELT pipeline:                    *)
(*   src/src/extract.py          taxi extract stage                        *)
(*   src/src/extract_weather.py  weather extract stage                     *)
(*   src/src/load.py             taxi load stage                           *)
(*   src/src/load_weather.py     weather load stage                        *)
(* The module holds several specifications over one set of variables; a   *)
(* specification leaves the variables of the other parts at their idle    *)
(* values.                                                                 *)
(*   SpecPlan    generate_file_list, one loop iteration per step           *)
(*   SpecConfig  load_config of the four stages, applied to one document   *)
(*   SpecLoad    load_new_files and its pool of process_file threads       *)
(*   SpecPipe    the four stage entry points, run after run                *)
(*   SpecEntry   one entry point, from its call to its return              *)
(*   SpecFetch   one item of the taxi extraction: fetch, filter, upload    *)
(*   SpecClean   clean_numeric_data on one column of a weather file        *)
(*   SpecDag     one run of the scheduler's task graph                     *)
(*   SpecDates   one call of get_date_ranges                               *)
(*   SpecWload   the weather load, file by file, over several runs         *)
(*   SpecWstage  the weather extract of one station, run after run         *)
(***************************************************************************)
EXTENDS Integers, Sequences, FiniteSets, TLC

VARIABLES
    \* ---- the wall clock (datetime.now()) ----
    now,            \* [year, month]
    \* ---- generate_file_list (extract.py) ----
    plan_pc,        \* "idle" | "loop" | "done"
    start_year,     \* the local start_year
    current_year,   \* the local current_year, read once at the call
    year, month,    \* the two loop counters
    files,          \* the list being built
    called_at,      \* the clock when generate_file_list was called
    ticks,          \* how often the clock advanced (bounds the model)
    \* ---- load_config (all four stages) ----
    cfg_pc,         \* "idle" | "called" | "returned"
    cfg_stage,      \* whose load_config: "extract" | "extract_weather" | ...
    cfg_document,   \* the parsed YAML document
    cfg_section,    \* the section argument
    cfg_result,     \* the returned configuration
    \* ---- the object store and the warehouse, as load.py sees them ----
    bucket,         \* the objects of the bucket
    destination,    \* the destination table: [exists, rows]
    temp_tables,    \* the temporary tables: {[id, data]}
    \* ---- load_new_files / process_file (load.py) ----
    load_pc,        \* "idle" | "pool" | "returned" | "raised"
    load_run,       \* how many calls of load_new_files have started
    new_files,      \* the work list
    results,        \* per item: "pending" | "true" | "false" | "raised"
    next_item,      \* the next item the pool hands to a thread
    workers,        \* per pool thread: [item, pc]
    max_workers,
    successful_files,
    log_errors,     \* the file names process_file logged an error for
    completed,      \* per item: the steps that completed without exception
    raised,         \* per item: the step that raised, or "none"
    faults,         \* how many operations the environment failed
    query_raised,   \* whether the provenance query of this call raised
    final_check,    \* "none" | "rows_logged" | "error_logged"
    staged_at_call, \* the base names in the bucket at the call
    known_at_call,  \* the provenance column at the call
    started,        \* per work item: how many times process_file was entered
    \* ---- the pipeline: the four stages, run after run ----
    pipe_run,       \* the number of the pipeline run in progress
    done_stages,    \* the stages that ended in this run
    failed_stages,  \* the stages of this run that ended by raising
    stage,          \* the stage that is running, or "none"
    stage_pc,       \* "none" | "check" | "fetch" | "put" | "provision" | "finally"
    item,           \* the index of the running stage's loop
    stage_error,    \* whether the body of the running stage raised
    remote,         \* the file names the remote sources serve
    weather_config, \* the load_weather section of the configuration
    warehouse,      \* the rows of the weather tables: {[table, source_file, run]}
    created,        \* the weather tables that exist
    existing_files, \* load_weather_pipeline's existing_files
    weather_files,  \* load_weather_pipeline's new_files
    table_ref,      \* the table the weather loads append to
    events,         \* what the stages of this run did: {[run, stage, op, path]}
    store_at_start, \* per extract stage: the store when it started
    \* ---- one entry point (main), from its call to its return ----
    entry_stage,    \* whose main
    entry_call,     \* how it is called: [mode, config, workers]
    entry_keys,     \* the keys of the configuration load_config returns
    entry_pc,       \* "idle" | "called" | "config" | "clients" | "body" | "finally" | "ended"
    entry_ops,      \* what the run did: clients, store, http, warehouse, prints
    entry_result,   \* "none" | "returned" | "raised" | "exit"
    entry_pool,     \* the size of the worker pool the run created (0: none)
    entry_body_raised, \* whether the try block raised
    \* ---- one item of extract.process_files ----
    fetch_pc,       \* "idle" | "start" | "fetched" | "done"
    fetch_in,       \* [response, parquet_url, selected, body]
    fetch_content,  \* what fetch_and_filter_file returned
    fetch_log,      \* what fetch_and_filter_file logged
    fetch_stored,   \* the content the store holds at the item's path
    fetch_put,      \* "none" | "stored" | "raised": the upload of the item
    files_processed, \* process_files' counter
    \* ---- clean_numeric_data on one column ----
    clean_pc,       \* "idle" | "start" | "str" | "replaced" | "done"
    clean_name,     \* the column's name
    clean_in,       \* the column as read from the file
    clean_col,      \* the column now
    \* ---- one run of the DAG ----
    task_state,     \* per task: "none" | "running" | "up_for_retry" | "success" | "failed" | "upstream_failed"
    task_tries,     \* per task: how many times it was started
    \* ---- one call of get_date_ranges ----
    dr_pc,          \* "idle" | "loop" | "returned"
    dr_start,       \* the configured start date
    dr_now,         \* datetime.now(): [date, past_midnight]
    dr_current,     \* current_date
    date_ranges,    \* the windows appended so far
    \* ---- the weather load, file by file ----
    wl_pc,          \* "idle" | "start" | "loop" | "returned" | "raised"
    wl_run,         \* the number of the run
    wl_store,       \* the objects under the weather folder
    wl_same_table,  \* table_id names the table the loads go to
    wl_rows,        \* the rows of the table the loads go to
    wl_existing,    \* existing_files
    wl_new_files,   \* new_files, in the order of the listing
    wl_i,           \* position of the loop in new_files
    wl_files_processed, \* files_processed
    wl_log,         \* what the run has logged about its files
    wl_faults,      \* failed operations of this run
    wl_clean,       \* per earlier run: no operation failed
    \* ---- extract_weather for one station, run after run ----
    ws_start,       \* the configured start date
    ws_now,         \* datetime.now() of the run: [date, past_midnight]
    ws_store,       \* the staged windows: [year_month, file_name]
    ws_runs         \* runs made so far

planVars == <<now, plan_pc, start_year, current_year, year, month, files,
              called_at, ticks>>

cfgVars == <<cfg_pc, cfg_stage, cfg_document, cfg_section, cfg_result>>

loadVars == <<bucket, destination, temp_tables, load_pc, load_run, new_files,
              results, next_item, workers, max_workers, successful_files,
              log_errors, completed, raised, faults, query_raised,
              final_check,
              staged_at_call, known_at_call, started>>

pipeVars == <<pipe_run, done_stages, failed_stages, stage, stage_pc, item,
              stage_error, remote, weather_config, warehouse, created,
              existing_files, weather_files, table_ref, events,
              store_at_start>>

entryVars == <<entry_stage, entry_call, entry_keys, entry_pc, entry_ops,
               entry_result, entry_pool, entry_body_raised>>

\* The parts added to the model after the pipeline.
fetchVars == <<fetch_pc, fetch_in, fetch_content, fetch_log, fetch_stored,
               fetch_put, files_processed>>

cleanVars == <<clean_pc, clean_name, clean_in, clean_col>>

dagVars == <<task_state, task_tries>>

datesVars == <<dr_pc, dr_start, dr_now, dr_current, date_ranges>>

wloadVars == <<wl_pc, wl_run, wl_store, wl_same_table, wl_rows, wl_existing,
               wl_new_files, wl_i, wl_files_processed, wl_log, wl_faults,
               wl_clean>>

wstageVars == <<ws_start, ws_now, ws_store, ws_runs>>

moreVars ==
    <<entryVars, fetchVars, cleanVars, dagVars, datesVars, wloadVars,
      wstageVars>>

vars == <<planVars, cfgVars, loadVars, pipeVars, moreVars>>

\* What the actions of one part leave alone.
exceptPlan == <<cfgVars, loadVars, pipeVars, moreVars>>
exceptCfg == <<planVars, loadVars, pipeVars, moreVars>>
exceptLoad == <<planVars, cfgVars, pipeVars, moreVars>>
baseVars == <<planVars, cfgVars, loadVars, pipeVars>>
exceptEntry ==
    <<baseVars, fetchVars, cleanVars, dagVars, datesVars, wloadVars,
      wstageVars>>
exceptFetch ==
    <<baseVars, entryVars, cleanVars, dagVars, datesVars, wloadVars,
      wstageVars>>
exceptClean ==
    <<baseVars, entryVars, fetchVars, dagVars, datesVars, wloadVars,
      wstageVars>>
exceptDag ==
    <<baseVars, entryVars, fetchVars, cleanVars, datesVars, wloadVars,
      wstageVars>>
exceptDates ==
    <<baseVars, entryVars, fetchVars, cleanVars, dagVars, wloadVars,
      wstageVars>>
exceptWload ==
    <<baseVars, entryVars, fetchVars, cleanVars, dagVars, datesVars,
      wstageVars>>
exceptWstage ==
    <<baseVars, entryVars, fetchVars, cleanVars, dagVars, datesVars,
      wloadVars>>
\* The pipeline's stages act on the store; they leave the taxi destination
\* table and the state of load_new_files alone.
pipeRest == <<planVars, cfgVars, moreVars, remote, weather_config, destination,
              temp_tables, load_pc, load_run, new_files, results, next_item,
              workers, max_workers, successful_files, log_errors, completed,
              raised, query_raised, final_check, staged_at_call,
              known_at_call, started>>

(***************************************************************************)
(* Bounds of the model.                                                    *)
(***************************************************************************)
MinYear == 2023
YearSpan == 2
MaxTicks == 2
MaxWorkers == 2
MaxFaults == 1
PlanMonths == 2
MaxColumns == 2
MaxNum == 1
MaxCells == 2
Runs == 2

Years == MinYear .. (MinYear + YearSpan)
Months == 1 .. 12

(***************************************************************************)
(* Program constants.                                                      *)
(***************************************************************************)
DefaultStartYear == 2020

(***************************************************************************)
(* File names and object paths.                                            *)
(***************************************************************************)
\* A file name is a sequence of tokens: a piece of text, one of the
\* characters the code looks at ('.', '_', '-'), or a formatted number.
Txt(text) == [txt |-> text]
Dot == [ch |-> "."]
Underscore == [ch |-> "_"]
Dash == [ch |-> "-"]
Num(n) == [num |-> n]
\* {month:02d}
Num02(n) == [num02 |-> n]

\* f"{folder}{file_name}": a folder is the sequence of its path segments.
GcsPath(folder, name) == [folder |-> folder, name |-> name]

(***************************************************************************)
(* extract.py: generate_file_list                                          *)
(***************************************************************************)
\* The extract section's naming keys; they are fixed for one run.
file_prefix == <<Txt("yellow"), Underscore, Txt("tripdata")>>
file_extension == <<Dot, Txt("parquet")>>
gcs_folder == <<"taxi">>

\* f"{file_prefix}_{year}-{month:02d}{file_extension}"
FileName(y, m) ==
    file_prefix \o <<Underscore, Num(y), Dash, Num02(m)>> \o file_extension

nyc_taxi_url_pattern(name) == [host |-> "d37ci6vzurychx.cloudfront.net",
                               path |-> <<"trip-data">>, name |-> name]

Descriptor(y, m) ==
    [file_name |-> FileName(y, m),
     gcs_path  |-> GcsPath(gcs_folder, FileName(y, m)),
     url       |-> nyc_taxi_url_pattern(FileName(y, m))]

\* config.get("start_year", 2020); the key may be absent.
ConfigStartYear(entry) ==
    IF entry.present THEN entry.value ELSE DefaultStartYear

\* The month test of the loop body, with a mutant that forgets it
\* (the history version of the file emits all twelve months).
SkipMonth_NoTest(y, m, cy, nowMonth) == FALSE

SkipMonth(y, m, cy, nowMonth) == y = cy /\ m > nowMonth

\* range(start_year, current_year + 1), with a mutant that drops the + 1.
YearInRange_Short(y, cy) == y < cy

YearInRange(y, cy) == y < cy + 1

StartYearInputs ==
    {[present |-> FALSE, value |-> 0]} \cup
    {[present |-> TRUE, value |-> y] : y \in MinYear .. (MinYear + YearSpan + 1)}

PlanIdle ==
    /\ plan_pc = "idle"
    /\ start_year = 0
    /\ current_year = 0
    /\ year = 0
    /\ month = 0
    /\ files = <<>>
    /\ called_at = [year |-> 0, month |-> 0]

PlanInit ==
    /\ now \in [year : Years, month : Months]
    /\ ticks = 0
    /\ PlanIdle

\* The call: current_year = datetime.now().year, start_year from the
\* configuration, files = [], and the two loops start.
generate_file_list ==
    /\ plan_pc = "idle"
    /\ plan_pc' = "loop"
    /\ current_year' = now.year
    /\ called_at' = now
    /\ \E entry \in StartYearInputs :
          /\ start_year' = ConfigStartYear(entry)
          /\ year' = ConfigStartYear(entry)
    /\ month' = 1
    /\ files' = <<>>
    /\ UNCHANGED <<now, ticks, exceptPlan>>

\* One iteration of the inner loop; datetime.now().month is read again.
PlanIter ==
    /\ plan_pc = "loop"
    /\ YearInRange(year, current_year)
    /\ files' = IF SkipMonth(year, month, current_year, now.month)
                THEN files
                ELSE Append(files, Descriptor(year, month))
    /\ IF month = 12
       THEN year' = year + 1 /\ month' = 1
       ELSE year' = year /\ month' = month + 1
    /\ UNCHANGED <<now, plan_pc, start_year, current_year, called_at, ticks,
                   exceptPlan>>

\* The outer range is exhausted: return files.
PlanReturn ==
    /\ plan_pc = "loop"
    /\ ~YearInRange(year, current_year)
    /\ plan_pc' = "done"
    /\ UNCHANGED <<now, start_year, current_year, year, month, files,
                   called_at, ticks, exceptPlan>>

\* The wall clock moves on by one month, at any moment.
NextMonth(t) ==
    IF t.month = 12 THEN [year |-> t.year + 1, month |-> 1]
    ELSE [year |-> t.year, month |-> t.month + 1]

ClockTick ==
    /\ ticks < MaxTicks
    /\ ticks' = ticks + 1
    /\ now' = NextMonth(now)
    /\ UNCHANGED <<plan_pc, start_year, current_year, year, month, files,
                   called_at, exceptPlan>>

PlanNext == generate_file_list \/ PlanIter \/ PlanReturn \/ ClockTick

(***************************************************************************)
(* Configuration documents.                                                *)
(*   A dictionary keeps its insertion order: [order, val].                 *)
(*   A value is an integer [int], a string [str] (a sequence of tokens,    *)
(*   each a literal or a placeholder ${key}) or a nested dictionary [map]. *)
(***************************************************************************)
Lit(text) == [ref |-> FALSE, text |-> text]
Ref(key) == [ref |-> TRUE, text |-> key]

IsStr(v) == "str" \in DOMAIN v
IsMap(v) == "map" \in DOMAIN v

EmptyDict == [order |-> <<>>, val |-> [k \in {} |-> [int |-> 0]]]

Keys(d) == DOMAIN d.val

\* The keys of dictionary d for which Keep holds, in d's order.
DictFilter(d, Keep(_)) ==
    [order |-> SelectSeq(d.order, Keep),
     val   |-> [k \in {x \in Keys(d) : Keep(x)} |-> d.val[k]]]

\* dict.update: a key of e replaces the value and keeps its place in d, a
\* new key is appended.
DictUpdate(d, e) ==
    [order |-> d.order \o SelectSeq(e.order, LAMBDA k : k \notin Keys(d)),
     val   |-> [k \in Keys(d) \cup Keys(e) |->
                  IF k \in Keys(e) THEN e.val[k] ELSE d.val[k]]]

\* str.replace("${key}", value) on one string.
RECURSIVE ReplaceIn(_, _, _)
ReplaceIn(tokens, key, value) ==
    IF tokens = <<>> THEN <<>>
    ELSE (IF Head(tokens) = Ref(key) THEN value ELSE <<Head(tokens)>>)
         \o ReplaceIn(Tail(tokens), key, value)

\* The same replacement on a value of the dumped document: the dump holds
\* the strings of every nesting level.
ReplaceInValue(v, key, value) ==
    IF IsStr(v) THEN [str |-> ReplaceIn(v.str, key, value)]
    ELSE IF IsMap(v)
         THEN [map |-> [order |-> v.map.order,
                        val |-> [k \in Keys(v.map) |->
                                   IF IsStr(v.map.val[k])
                                   THEN [str |-> ReplaceIn(v.map.val[k].str,
                                                           key, value)]
                                   ELSE v.map.val[k]]]]
         ELSE v

ReplaceInDict(d, key, value) ==
    [order |-> d.order,
     val   |-> [k \in Keys(d) |-> ReplaceInValue(d.val[k], key, value)]]

\* resolve_config_references: yaml.dump, then one replace per top-level
\* string key of the ORIGINAL config, in the config's key order, then
\* yaml.safe_load.  i is the position reached in config.items().
RECURSIVE ResolveFrom(_, _, _)
ResolveFrom(config, dumped, i) ==
    IF i > Len(config.order) THEN dumped
    ELSE LET key == config.order[i]
             value == config.val[key]
         IN ResolveFrom(config,
                        IF IsStr(value)
                        THEN ReplaceInDict(dumped, key, value.str)
                        ELSE dumped,
                        i + 1)

resolve_config_references(config) == ResolveFrom(config, config, 1)

SectionNames == {"extract", "extract_weather", "load", "load_weather"}

\* The keys each stage's load_config leaves out of the globals.
\* extract.py:25-26
ExcludedByExtract == {"extract", "load"}
\* extract_weather.py:24-25
ExcludedByExtractWeather == {"extract", "extract_weather", "load"}
\* load_weather.py:28-29
ExcludedByLoadWeather == {"extract", "extract_weather", "load", "load_weather"}

\* extract.py, extract_weather.py, load_weather.py: resolve, then merge.
load_config_resolve_first(document, section, excluded) ==
    LET resolved_config == resolve_config_references(document)
    IN IF section \in Keys(resolved_config)
       THEN DictUpdate(DictFilter(resolved_config,
                                  LAMBDA k : k \notin excluded),
                       resolved_config.val[section].map)
       ELSE resolved_config

\* load.py: the globals are the values that are not dictionaries; merge,
\* then resolve.
load_config_load(document, section) ==
    IF section \in Keys(document)
    THEN LET global_params ==
                 DictFilter(document, LAMBDA k : ~IsMap(document.val[k]))
         IN resolve_config_references(
                DictUpdate(global_params, document.val[section].map))
    ELSE resolve_config_references(document)

load_config(module, document, section) ==
    CASE module = "extract" ->
           load_config_resolve_first(document, section, ExcludedByExtract)
      [] module = "extract_weather" ->
           load_config_resolve_first(document, section,
                                     ExcludedByExtractWeather)
      [] module = "load_weather" ->
           load_config_resolve_first(document, section, ExcludedByLoadWeather)
      [] module = "load" -> load_config_load(document, section)

(***************************************************************************)
(* The documents load_config is applied to.                                *)
(***************************************************************************)
CanonicalOrder == <<"x", "y", "z", "w",
                    "extract", "extract_weather", "load", "load_weather">>
ReverseOrder == <<"load_weather", "load", "extract_weather", "extract",
                  "w", "z", "y", "x">>

DictOf(f, order) ==
    [order |-> SelectSeq(order, LAMBDA k : k \in DOMAIN f), val |-> f]

GlobalValues ==
    {[int |-> 1], [int |-> 2], [str |-> <<Lit("a")>>],
     [str |-> <<Ref("x"), Lit("b")>>], [str |-> <<Ref("y")>>]}
SectionValues == {[int |-> 3], [int |-> 4], [str |-> <<Ref("x")>>]}

\* Every function from a subset of keys to values.
PartialFunctions(keys, values) ==
    UNION {[s -> values] : s \in SUBSET keys}

OtherSectionBody == [map |-> DictOf([w |-> [int |-> 9]], CanonicalOrder)]

\* Globals x and y, any of the four sections; the section that will be
\* requested has a body over y and z, the others hold the one key w.
DocumentsFor(section) ==
    {DictOf(g @@ [s \in secs |->
                    IF s = section THEN [map |-> DictOf(body, CanonicalOrder)]
                    ELSE OtherSectionBody],
            order) :
        g \in PartialFunctions({"x", "y"}, GlobalValues),
        body \in PartialFunctions({"y", "z"}, SectionValues),
        secs \in SUBSET SectionNames,
        order \in {CanonicalOrder, ReverseOrder}}

CfgIdle ==
    /\ cfg_pc = "idle"
    /\ cfg_stage = "extract"
    /\ cfg_document = EmptyDict
    /\ cfg_section = "extract"
    /\ cfg_result = EmptyDict

CfgInit ==
    /\ cfg_pc = "called"
    /\ cfg_stage \in SectionNames
    /\ cfg_section \in SectionNames
    /\ cfg_document \in DocumentsFor(cfg_section)
    /\ cfg_result = EmptyDict

LoadConfig ==
    /\ cfg_pc = "called"
    /\ cfg_pc' = "returned"
    /\ cfg_result' = load_config(cfg_stage, cfg_document, cfg_section)
    /\ UNCHANGED <<cfg_stage, cfg_document, cfg_section, exceptCfg>>

CfgNext == LoadConfig

(***************************************************************************)
(* load.py: the taxi load stage (load_new_files, process_file).            *)
(***************************************************************************)
\* The load section of the configuration.
load_gcs_folder == <<"taxi">>
load_file_extension == <<Dot, Txt("parquet")>>

\* str.endswith
EndsWith(name, suffix) ==
    /\ Len(suffix) <= Len(name)
    /\ SubSeq(name, Len(name) - Len(suffix) + 1, Len(name)) = suffix

\* str.startswith on folders: list_blobs(prefix=...) lists every object
\* whose path starts with the prefix, nested folders included.
IsUnderPrefix(folder, prefix) ==
    /\ Len(prefix) <= Len(folder)
    /\ SubSeq(folder, 1, Len(prefix)) = prefix

\* get_gcs_files: the base names (blob.name.split('/')[-1]) of the listed
\* objects whose name ends with the configured extension.
get_gcs_files(objects) ==
    {o.name : o \in {b \in objects :
                        /\ IsUnderPrefix(b.folder, load_gcs_folder)
                        /\ EndsWith(b.name, load_file_extension)}}

\* SELECT DISTINCT source_file ... WHERE source_file IS NOT NULL
ProvenanceColumn(table) == {r.source_file : r \in table.rows}

\* get_existing_files: the query result, or set() when the query raised.
get_existing_files_FailClosed(table, queryRaised) ==
    IF queryRaised THEN {FileName(MinYear, 1)} ELSE ProvenanceColumn(table)

get_existing_files(table, queryRaised) ==
    IF queryRaised THEN {} ELSE ProvenanceColumn(table)

\* new_files as a set, with a mutant that forgets the subtraction.
NewFileSet_NoDedup(objects, table, queryRaised) == get_gcs_files(objects)

NewFileSet(objects, table, queryRaised) ==
    get_gcs_files(objects) \ get_existing_files(table, queryRaised)

\* f"gs://{bucket_name}/{gcs_folder}{file_name}"
Uri(file_name) == GcsPath(load_gcs_folder, file_name)

\* f"{destination_table}_temp_{file_name.replace('.', '_')}"
TempTableId(file_name) ==
    [i \in 1 .. Len(file_name) |->
        IF file_name[i] = Dot THEN Underscore ELSE file_name[i]]

HasTemp(id) == \E t \in temp_tables : t.id = id
TempData(id) == (CHOOSE t \in temp_tables : t.id = id).data

\* Every order list(set) may give.
Orderings(S) ==
    {q \in [1 .. Cardinality(S) -> S] :
        \A i, j \in 1 .. Cardinality(S) : q[i] = q[j] => i = j}

IdleWorker == [item |-> 0, pc |-> "idle"]

LoadCallIdle ==
    /\ destination = [exists |-> FALSE, rows |-> {}]
    /\ temp_tables = {}
    /\ load_pc = "idle"
    /\ load_run = 0
    /\ new_files = <<>>
    /\ results = <<>>
    /\ next_item = 0
    /\ max_workers = 0
    /\ workers = <<>>
    /\ successful_files = 0
    /\ log_errors = {}
    /\ completed = <<>>
    /\ raised = <<>>
    /\ faults = 0
    /\ query_raised = FALSE
    /\ final_check = "none"
    /\ staged_at_call = {}
    /\ known_at_call = {}
    /\ started = <<>>

LoadIdle == bucket = {} /\ LoadCallIdle

\* The objects the bucket may hold when the load stage starts.
NameA == FileName(MinYear, 1)
NameB == <<Txt("trips"), Dot, Txt("v2"), Dot, Txt("parquet")>>
NameC == <<Txt("trips"), Underscore, Txt("v2"), Dot, Txt("parquet")>>
NameLog == <<Txt("load"), Underscore, Txt("log"), Dot, Txt("log")>>

\* Three data files (the temp table ids of NameB and NameC coincide), an
\* object with another extension, and a copy of NameA in a nested folder.
CandidateObjects ==
    {GcsPath(<<"taxi">>, NameA), GcsPath(<<"taxi">>, NameB),
     GcsPath(<<"taxi">>, NameC), GcsPath(<<"taxi">>, NameLog),
     GcsPath(<<"taxi", "archive">>, NameA)}

Row(data, source_file, run) ==
    [data |-> data, source_file |-> source_file, run |-> run]

InitialTables ==
    {[exists |-> FALSE, rows |-> {}]} \cup
    {[exists |-> TRUE, rows |-> {Row(n, n, 0) : n \in K}] :
        K \in SUBSET {NameA, NameB}}

\* ThreadPoolExecutor(max_workers=max_workers): the pool's threads.  The
\* mutant has one thread more.
PoolThreads_Extra(n) == 1 .. n + 1

PoolThreads(n) == 1 .. n

\* executor.map submits each item of new_files once, in order: the item
\* after the n-th.  The mutant hands the same item out again.
NextSubmitted_Same(n) == n

NextSubmitted(n) == n + 1

LoadInit ==
    /\ bucket \in SUBSET CandidateObjects
    /\ destination \in InitialTables
    /\ max_workers \in 1 .. MaxWorkers
    /\ temp_tables = {}
    /\ load_pc = "idle"
    /\ load_run = 0
    /\ new_files = <<>>
    /\ results = <<>>
    /\ next_item = 0
    /\ workers = [w \in PoolThreads(max_workers) |-> IdleWorker]
    /\ successful_files = 0
    /\ log_errors = {}
    /\ completed = <<>>
    /\ raised = <<>>
    /\ faults = 0
    /\ query_raised = FALSE
    /\ final_check = "none"
    /\ staged_at_call = {}
    /\ known_at_call = {}
    /\ started = <<>>

\* load_new_files up to the thread pool: the two listings, the difference,
\* the early return, the (log-only) get_table, and the submission of every
\* item to the pool by executor.map.
load_new_files ==
    /\ load_pc = "idle"
    /\ load_run' = load_run + 1
    /\ \E queryRaises \in BOOLEAN :
          \* The query raises when the table does not exist; it may also
          \* raise for another reason.
          /\ ~destination.exists => queryRaises
          /\ (destination.exists /\ queryRaises) => faults < MaxFaults
          /\ faults' = IF destination.exists /\ queryRaises
                       THEN faults + 1 ELSE faults
          /\ query_raised' = queryRaises
          /\ final_check' = "none"
          /\ LET todo == NewFileSet(bucket, destination, queryRaises)
             IN IF todo = {}
                THEN /\ load_pc' = "returned"
                     /\ successful_files' = 0
                     /\ new_files' = <<>>
                ELSE /\ load_pc' = "pool"
                     /\ successful_files' = successful_files
                     /\ new_files' \in Orderings(todo)
    /\ results' = [i \in 1 .. Len(new_files') |-> "pending"]
    /\ completed' = [i \in 1 .. Len(new_files') |-> {}]
    /\ raised' = [i \in 1 .. Len(new_files') |-> "none"]
    /\ next_item' = 1
    /\ log_errors' = {}
    /\ staged_at_call' = {o.name : o \in bucket}
    /\ known_at_call' = ProvenanceColumn(destination)
    /\ started' = [i \in 1 .. Len(new_files') |-> 0]
    /\ UNCHANGED <<bucket, destination, temp_tables, workers, max_workers,
                   exceptLoad>>

\* An idle pool thread takes the next submitted item and enters
\* process_file.
WorkerTake(w) ==
    /\ load_pc = "pool"
    /\ workers[w].pc = "idle"
    /\ next_item <= Len(new_files)
    /\ workers' = [workers EXCEPT ![w] = [item |-> next_item, pc |-> "load"]]
    /\ started' = [started EXCEPT ![next_item] = @ + 1]
    /\ next_item' = NextSubmitted(next_item)
    /\ UNCHANGED <<bucket, destination, temp_tables, load_pc, load_run,
                   new_files, results, max_workers, successful_files,
                   log_errors, completed, raised, faults, query_raised,
                   final_check,
                   staged_at_call, known_at_call, exceptLoad>>

\* What process_file's except branch makes of an exception, with a mutant
\* that lets it escape to the caller.
OnException_Propagate == "raised"

OnException == "false"

\* What process_file returns after the third step, with a mutant.
OnSuccess_False == "false"

OnSuccess == "true"

\* except Exception: log the error and return False.
ProcessFileFails(w, step) ==
    LET i == workers[w].item
    IN /\ results' = [results EXCEPT ![i] = OnException]
       /\ log_errors' = log_errors \cup {new_files[i]}
       /\ raised' = [raised EXCEPT ![i] = step]
       /\ workers' = [workers EXCEPT ![w] = IdleWorker]

StepDone(w, step, nextPc) ==
    LET i == workers[w].item
    IN /\ completed' = [completed EXCEPT ![i] = @ \cup {step}]
       /\ workers' = [workers EXCEPT ![w].pc = nextPc]

\* Step 1: load_table_from_uri(uri, temp_table_id, WRITE_TRUNCATE).result()
ProcessFileLoad(w) ==
    /\ load_pc = "pool"
    /\ workers[w].pc = "load"
    /\ LET f == new_files[workers[w].item]
       IN \E ok \in BOOLEAN :
            /\ ok => Uri(f) \in bucket
            /\ (~ok /\ Uri(f) \in bucket) => faults < MaxFaults
            /\ faults' = IF ~ok /\ Uri(f) \in bucket
                         THEN faults + 1 ELSE faults
            /\ IF ok
               THEN /\ temp_tables' =
                         {t \in temp_tables : t.id # TempTableId(f)}
                         \cup {[id |-> TempTableId(f), data |-> f]}
                    /\ StepDone(w, "load", "insert")
                    /\ UNCHANGED <<results, log_errors, raised>>
               ELSE /\ ProcessFileFails(w, "load")
                    /\ UNCHANGED <<temp_tables, completed>>
    /\ UNCHANGED <<bucket, destination, load_pc, load_run, new_files,
                   next_item, max_workers, successful_files, query_raised,
                   final_check,
                   staged_at_call, known_at_call, started, exceptLoad>>

\* Step 2: the generated INSERT INTO destination SELECT ..., "file_name"
\* FROM temp_table.
ProcessFileInsert(w) ==
    /\ load_pc = "pool"
    /\ workers[w].pc = "insert"
    /\ LET f == new_files[workers[w].item]
           id == TempTableId(f)
       IN \E ok \in BOOLEAN :
            /\ ok => HasTemp(id)
            /\ (~ok /\ HasTemp(id)) => faults < MaxFaults
            /\ faults' = IF ~ok /\ HasTemp(id) THEN faults + 1 ELSE faults
            /\ IF ok
               THEN /\ destination' =
                         [exists |-> TRUE,
                          rows |-> destination.rows
                                   \cup {Row(TempData(id), f, load_run)}]
                    /\ StepDone(w, "insert", "drop")
                    /\ UNCHANGED <<results, log_errors, raised>>
               ELSE /\ ProcessFileFails(w, "insert")
                    /\ UNCHANGED <<destination, completed>>
    /\ UNCHANGED <<bucket, temp_tables, load_pc, load_run, new_files,
                   next_item, max_workers, successful_files, query_raised,
                   final_check,
                   staged_at_call, known_at_call, started, exceptLoad>>

\* Step 3: delete_table(temp_table_id, not_found_ok=True); return True.
ProcessFileDrop(w) ==
    /\ load_pc = "pool"
    /\ workers[w].pc = "drop"
    /\ LET i == workers[w].item
           f == new_files[i]
       IN \E ok \in BOOLEAN :
            /\ ~ok => faults < MaxFaults
            /\ faults' = IF ok THEN faults ELSE faults + 1
            /\ IF ok
               THEN /\ temp_tables' =
                         {t \in temp_tables : t.id # TempTableId(f)}
                    /\ completed' = [completed EXCEPT ![i] = @ \cup {"drop"}]
                    /\ results' = [results EXCEPT ![i] = OnSuccess]
                    /\ workers' = [workers EXCEPT ![w] = IdleWorker]
                    /\ UNCHANGED <<log_errors, raised>>
               ELSE /\ ProcessFileFails(w, "drop")
                    /\ UNCHANGED <<temp_tables, completed>>
    /\ UNCHANGED <<bucket, destination, load_pc, load_run, new_files,
                   next_item, max_workers, successful_files, query_raised,
                   final_check,
                   staged_at_call, known_at_call, started, exceptLoad>>

\* sum(results), with a mutant that counts every finished item.
SumResults_All(r) == Cardinality({i \in 1 .. Len(r) : r[i] # "pending"})

SumResults(r) == Cardinality({i \in 1 .. Len(r) : r[i] = "true"})

\* What the final check's except branch makes of an exception of
\* get_table: it logs it and goes on to the return.  The mutant lets it
\* leave load_new_files.
OnFinalCheckError_Raise == "raised"

OnFinalCheckError == "returned"

\* The pool has shut down (the with block waits for every item);
\* list(executor.map(...)) re-raises an exception that escaped
\* process_file; otherwise the sum, the final get_table for the row count
\* (it may raise), and the return.
LoadNewFilesReturn ==
    /\ load_pc = "pool"
    /\ \A i \in 1 .. Len(results) : results[i] # "pending"
    /\ IF \E i \in 1 .. Len(results) : results[i] = "raised"
       THEN /\ load_pc' = "raised"
            /\ UNCHANGED <<successful_files, final_check, faults>>
       ELSE \E checkRaises \in BOOLEAN :
               /\ checkRaises => faults < MaxFaults
               /\ faults' = IF checkRaises THEN faults + 1 ELSE faults
               /\ successful_files' = SumResults(results)
               /\ final_check' = IF checkRaises THEN "error_logged"
                                  ELSE "rows_logged"
               /\ load_pc' = IF checkRaises THEN OnFinalCheckError
                             ELSE "returned"
    /\ UNCHANGED <<bucket, destination, temp_tables, load_run, new_files,
                   results, next_item, workers, max_workers, log_errors,
                   completed, raised, query_raised, staged_at_call,
                   known_at_call, started, exceptLoad>>

\* The pool's threads run concurrently: any of them takes the next step.
PoolTake == \E w \in DOMAIN workers : WorkerTake(w)
PoolLoad == \E w \in DOMAIN workers : ProcessFileLoad(w)
PoolInsert == \E w \in DOMAIN workers : ProcessFileInsert(w)
PoolDrop == \E w \in DOMAIN workers : ProcessFileDrop(w)

LoadNext ==
    \/ load_new_files
    \/ PoolTake
    \/ PoolLoad
    \/ PoolInsert
    \/ PoolDrop
    \/ LoadNewFilesReturn

(***************************************************************************)
(* The pipeline: the four stage entry points, run in an order the          *)
(* scheduler's dependencies allow (extract before load, for each           *)
(* dataset), several runs in a row over one object store and one           *)
(* warehouse.  The entry points are started from the command line with a   *)
(* configuration that holds every required key.                            *)
(***************************************************************************)
Stages == {"extract", "load", "extract_weather", "load_weather"}
ExtractStages == {"extract", "extract_weather"}

\* update_profiles >> extract_taxi >> load_taxi
\* update_profiles >> extract_weather >> load_weather
Upstream(s) ==
    CASE s = "load" -> {"extract"}
      [] s = "load_weather" -> {"extract_weather"}
      [] OTHER -> {}

\* A task starts when its upstream tasks succeeded in this run.
StageReady(s) ==
    /\ s \notin done_stages
    /\ Upstream(s) \subseteq (done_stages \ failed_stages)

RunOver == stage = "none" /\ \A s \in Stages : ~StageReady(s)

\* The taxi plan: the list generate_file_list returns for
\* start_year = MinYear in month PlanMonths of that year.
TaxiPlan == [m \in 1 .. PlanMonths |-> Descriptor(MinYear, m)]

\* extract_weather.py: one item per station and monthly window,
\* file_name = f"{station_id}_{start}_{end}.csv" and
\* gcs_path = f"{gcs_folder}{year_month}/{file_name}".
weather_gcs_folder == <<"weather">>

WeatherFileName(station, first, last) ==
    <<Txt(station), Underscore, Num(first), Underscore, Num(last), Dot,
      Txt("csv")>>

WeatherItem(station, yearMonth, first, last) ==
    [file_name |-> WeatherFileName(station, first, last),
     gcs_path  |-> GcsPath(weather_gcs_folder \o yearMonth,
                           WeatherFileName(station, first, last)),
     url       |-> [host |-> "mesonet.agron.iastate.edu",
                    path |-> <<"cgi-bin", "request", "asos.py">>,
                    name |-> WeatherFileName(station, first, last)]]

\* One station, the windows of January and of the running month.
WeatherPlan ==
    <<WeatherItem("JFK", <<"2023", "01">>, 20230101, 20230131),
      WeatherItem("JFK", <<"2023", "02">>, 20230201, 20230215)>>

Plan(s) == IF s = "extract" THEN TaxiPlan ELSE WeatherPlan

PlanPaths(s) == {Plan(s)[i].gcs_path : i \in 1 .. Len(Plan(s))}

\* What the remote sources serve: the taxi files of the first months
\* (a month is published some time after it ends) and the weather windows
\* of some of the planned items.
Served(plan, n) == {plan[i].file_name : i \in 1 .. n}

RemoteInputs ==
    {Served(TaxiPlan, k) \cup Served(WeatherPlan, w) :
        k \in 0 .. Len(TaxiPlan), w \in {1, Len(WeatherPlan)}}

\* What the store holds before the first run: nothing, or the first item
\* of each plan.
InitialStores == {{}, {TaxiPlan[1].gcs_path, WeatherPlan[1].gcs_path}}

\* f"{log_folder}extract_log_{timestamp}.log" and its siblings; the
\* timestamp of a stage's log differs from run to run.
log_folder == <<"logs">>

LogObject(s, run) ==
    GcsPath(log_folder,
            <<Txt(s), Underscore, Txt("log"), Underscore, Num(run), Dot,
              Txt("log")>>)

Event(s, op, path) ==
    [run |-> pipe_run, stage |-> s, op |-> op, path |-> path]

(***************************************************************************)
(* load_weather.py: which table is queried and which one is loaded.        *)
(***************************************************************************)
client_project == "proj"

TableRef(project, dataset, table) ==
    [project |-> project, dataset |-> dataset, table |-> table]

NoTable == TableRef("", "", "")

\* The load_weather section: table_id split at its dots, and the optional
\* keys dataset_id and table_name.
WeatherConfig(tableId, named, dataset, table) ==
    [table_id |-> tableId, named |-> named, dataset_id |-> dataset,
     table_name |-> table]

WeatherConfigs ==
    {WeatherConfig(<<"proj", "weather", "obs">>, FALSE, "", ""),
     WeatherConfig(<<"other", "weather", "obs">>, FALSE, "", ""),
     WeatherConfig(<<"weather", "obs">>, FALSE, "", ""),
     WeatherConfig(<<"weather", "obs">>, TRUE, "weather", "obs")}

\* FROM `{table_id}`: the warehouse resolves a table id without a project
\* in the client's project.
QueriedTable(cfg) ==
    IF Len(cfg.table_id) = 3
    THEN TableRef(cfg.table_id[1], cfg.table_id[2], cfg.table_id[3])
    ELSE TableRef(client_project, cfg.table_id[1], cfg.table_id[2])

\* process_and_load_weather_data: dataset_id and table_name come from a
\* table_id with exactly two dots, else from the keys dataset_id and
\* table_name and their defaults; create_table_if_not_exists returns
\* f"{client.project}.{dataset_id}.{table_id}", which every load uses.
ProvisionedTable(cfg) ==
    IF Len(cfg.table_id) = 3
    THEN TableRef(client_project, cfg.table_id[2], cfg.table_id[3])
    ELSE TableRef(client_project,
                  IF cfg.named THEN cfg.dataset_id ELSE "weather_data",
                  IF cfg.named THEN cfg.table_name ELSE "raw_weather_data")

\* get_existing_weather_files: the distinct source_file values of the
\* queried table, or set() when the query raised.
get_existing_weather_files(cfg, rows, queryRaised) ==
    IF queryRaised THEN {}
    ELSE {r.source_file : r \in {x \in rows : x.table = QueriedTable(cfg)}}

\* list_gcs_files(storage_client, bucket_name, gcs_folder)
list_gcs_files(objects) ==
    {o \in objects : IsUnderPrefix(o.folder, weather_gcs_folder)}

PipeIdle ==
    /\ pipe_run = 0
    /\ done_stages = {}
    /\ failed_stages = {}
    /\ stage = "none"
    /\ stage_pc = "none"
    /\ item = 0
    /\ stage_error = FALSE
    /\ remote = {}
    /\ weather_config = WeatherConfig(<<>>, FALSE, "", "")
    /\ warehouse = {}
    /\ created = {}
    /\ existing_files = {}
    /\ weather_files = <<>>
    /\ table_ref = NoTable
    /\ events = {}
    /\ store_at_start = [s \in ExtractStages |-> {}]

\* The first run is about to start: the remote sources serve some of the
\* planned files, the store may hold the first item of each plan, the
\* warehouse is empty.
PipeInit ==
    /\ pipe_run = 1
    /\ done_stages = {}
    /\ failed_stages = {}
    /\ stage = "none"
    /\ stage_pc = "none"
    /\ item = 0
    /\ stage_error = FALSE
    /\ remote \in RemoteInputs
    /\ weather_config \in WeatherConfigs
    /\ warehouse = {}
    /\ created = {}
    /\ existing_files = {}
    /\ weather_files = <<>>
    /\ table_ref = NoTable
    /\ events = {}
    /\ store_at_start = [s \in ExtractStages |-> {}]
    /\ bucket \in InitialStores
    /\ LoadCallIdle

\* The stage that is running ends; a stage that raised is a failed task.
EndStage(hasRaised) ==
    /\ stage' = "none"
    /\ stage_pc' = "none"
    /\ item' = 0
    /\ done_stages' = done_stages \cup {stage}
    /\ failed_stages' = IF hasRaised THEN failed_stages \cup {stage}
                        ELSE failed_stages

\* `continue` or the end of the loop body: the next item, or the finally
\* block after the last one.
Advance(n) ==
    /\ item' = item + 1
    /\ stage_pc' = IF item + 1 > n THEN "finally" ELSE "check"

\* The scheduler starts the next run when no task of this one is left.
StartRun ==
    /\ RunOver
    /\ pipe_run < Runs
    /\ pipe_run' = pipe_run + 1
    /\ done_stages' = {}
    /\ failed_stages' = {}
    /\ store_at_start' = [s \in ExtractStages |-> {}]
    /\ events' = {}
    /\ UNCHANGED <<stage, stage_pc, item, stage_error, warehouse, created,
                   existing_files, weather_files, table_ref, bucket, faults,
                   pipeRest>>

(***************************************************************************)
(* extract.py main / process_files and extract_weather.py main /           *)
(* process_weather_data: the same loop over the planned items.             *)
(***************************************************************************)
\* main up to the loop: configuration, logging, client, the plan.
ExtractMain(s) ==
    /\ stage = "none"
    /\ StageReady(s)
    /\ stage' = s
    /\ stage_pc' = "check"
    /\ item' = 1
    /\ stage_error' = FALSE
    /\ store_at_start' = [store_at_start EXCEPT ![s] = bucket]
    /\ UNCHANGED <<pipe_run, done_stages, failed_stages, warehouse, created,
                   existing_files, weather_files, table_ref, events, bucket,
                   faults, pipeRest>>

extract_main == ExtractMain("extract")

extract_weather_main == ExtractMain("extract_weather")

\* check_file_exists(client, bucket_name, gcs_path): blob.exists() may
\* raise; the exception leaves the loop and is logged by main.
check_file_exists ==
    /\ stage \in ExtractStages
    /\ stage_pc = "check"
    /\ \/ /\ faults < MaxFaults
          /\ faults' = faults + 1
          /\ stage_error' = TRUE
          /\ stage_pc' = "finally"
          /\ item' = item
          /\ events' = events \cup
                {Event(stage, "item_raised", Plan(stage)[item].gcs_path)}
       \/ /\ faults' = faults
          /\ stage_error' = stage_error
          /\ events' = events
          /\ IF Plan(stage)[item].gcs_path \in bucket
             THEN Advance(Len(Plan(stage)))
             ELSE stage_pc' = "fetch" /\ item' = item
    /\ UNCHANGED <<pipe_run, done_stages, failed_stages, stage, warehouse,
                   created, existing_files, weather_files, table_ref,
                   store_at_start, bucket, pipeRest>>

\* fetch_and_filter_file / extract_asos_data: one HTTP request; a file the
\* remote source does not serve gives None and the item is left out.
fetch_item ==
    /\ stage \in ExtractStages
    /\ stage_pc = "fetch"
    /\ events' = events \cup
                    {Event(stage, "fetch", Plan(stage)[item].gcs_path)}
    /\ IF Plan(stage)[item].file_name \in remote
       THEN stage_pc' = "put" /\ item' = item
       ELSE Advance(Len(Plan(stage)))
    /\ UNCHANGED <<pipe_run, done_stages, failed_stages, stage, stage_error,
                   warehouse, created, existing_files, weather_files,
                   table_ref, store_at_start, bucket, faults, pipeRest>>

\* upload_to_gcs(client, bucket_name, gcs_path, content): the put may
\* raise; the exception leaves the loop and is logged by main.
upload_to_gcs ==
    /\ stage \in ExtractStages
    /\ stage_pc = "put"
    /\ \/ /\ faults < MaxFaults
          /\ faults' = faults + 1
          /\ stage_error' = TRUE
          /\ stage_pc' = "finally"
          /\ item' = item
          /\ bucket' = bucket
          /\ events' = events \cup
                {Event(stage, "item_raised", Plan(stage)[item].gcs_path)}
       \/ /\ faults' = faults
          /\ stage_error' = stage_error
          /\ bucket' = bucket \cup {Plan(stage)[item].gcs_path}
          /\ events' = events \cup
                {Event(stage, "put", Plan(stage)[item].gcs_path)} \cup
                (IF Plan(stage)[item].gcs_path \in bucket
                 THEN {Event(stage, "overwrite", Plan(stage)[item].gcs_path)}
                 ELSE {})
          /\ Advance(Len(Plan(stage)))
    /\ UNCHANGED <<pipe_run, done_stages, failed_stages, stage, warehouse,
                   created, existing_files, weather_files, table_ref,
                   store_at_start, pipeRest>>

\* What the finally block of the running stage did about its log: the
\* upload attempt (ship_log), its failure (ship_failed), the failure
\* leaving main as an exception (ship_raised), the log stream printed
\* (print_log).
ShipEvents(ops) == {Event(stage, op, LogObject(stage, pipe_run)) : op \in ops}

\* finally: upload_log(client, config, log_stream, logger), not guarded: a
\* failed put of the log raises out of main.
upload_log ==
    /\ stage \in ExtractStages
    /\ stage_pc = "finally"
    /\ \/ /\ faults < MaxFaults
          /\ faults' = faults + 1
          /\ bucket' = bucket
          /\ events' = events \cup ShipEvents({"ship_log", "ship_failed",
                                                "ship_raised"})
          /\ EndStage(TRUE)
       \/ /\ faults' = faults
          /\ bucket' = bucket \cup {LogObject(stage, pipe_run)}
          /\ events' = events \cup ShipEvents({"ship_log"})
          /\ EndStage(FALSE)
    /\ UNCHANGED <<pipe_run, stage_error, warehouse, created, existing_files,
                   weather_files, table_ref, store_at_start, pipeRest>>

(***************************************************************************)
(* load.py main / load_pipeline                                            *)
(***************************************************************************)
\* main(config_path) calls load_pipeline, which checks and parses the
\* configuration file, then unpacks the single logger setup_logging
\* returns into two names: the TypeError is caught and printed and the
\* function returns.  Past that step it would load the configuration,
\* build the clients and return.  No listing, no query, no load job, no
\* log upload is issued on any path.
load_main ==
    /\ stage = "none"
    /\ StageReady("load")
    /\ done_stages' = done_stages \cup {"load"}
    /\ UNCHANGED <<pipe_run, failed_stages, stage, stage_pc, item,
                   stage_error, warehouse, created, existing_files,
                   weather_files, table_ref, events, store_at_start, bucket,
                   faults, pipeRest>>

(***************************************************************************)
(* load_weather.py main / load_weather_pipeline                            *)
(***************************************************************************)
\* The pipeline up to process_and_load_weather_data: the listing (which
\* may raise), the query for the files already loaded (whose exceptions
\* all give set()), the new files.
load_weather_main ==
    /\ stage = "none"
    /\ StageReady("load_weather")
    /\ stage' = "load_weather"
    /\ \/ /\ faults < MaxFaults
          /\ faults' = faults + 1
          /\ stage_error' = TRUE
          /\ stage_pc' = "finally"
          /\ UNCHANGED <<existing_files, weather_files>>
       \/ \E queryRaises \in BOOLEAN :
             /\ QueriedTable(weather_config) \notin created => queryRaises
             /\ (QueriedTable(weather_config) \in created /\ queryRaises)
                   => faults < MaxFaults
             /\ faults' = IF QueriedTable(weather_config) \in created
                             /\ queryRaises
                          THEN faults + 1 ELSE faults
             /\ stage_error' = FALSE
             /\ stage_pc' = "provision"
             /\ existing_files' =
                   get_existing_weather_files(weather_config, warehouse,
                                              queryRaises)
             /\ weather_files' \in
                   Orderings({o \in list_gcs_files(bucket) :
                                 o.name \notin existing_files'})
    /\ item' = 0
    /\ UNCHANGED <<pipe_run, done_stages, failed_stages, warehouse, created,
                   table_ref, events, store_at_start, bucket, pipeRest>>

\* f"{client.project}.{dataset_id}"
DatasetOf(t) == TableRef(t.project, t.dataset, "")

\* ensure_dataset_exists / create_table_if_not_exists on an object that
\* exists or not: the get finds it, or raises (it is missing, or the
\* request failed: one fault) and the except branch creates it; the create
\* is done, or raises (the object exists, or the request failed: one
\* fault).
EnsureOutcome(get, create, failed) ==
    [get |-> get, create |-> create, faults |-> failed]

EnsureOutcomes(exists) ==
    IF exists
    THEN {EnsureOutcome("found", "none", 0),
          EnsureOutcome("raised", "raised", 1)}
    ELSE {EnsureOutcome("raised", "done", 0),
          EnsureOutcome("raised", "raised", 1)}

NotReached == EnsureOutcome("none", "none", 0)

\* Neither function catches what create_dataset / create_table raises.
\* The mutant goes on after a failed create.
Ensured_Swallow(o) == TRUE

Ensured(o) == o.create # "raised"

\* What provisioning did, as events of the running stage: the call, and
\* each create with whether the object existed.
ProvisionEvents(d, od, t, ot) ==
    {Event(stage, "provision",
           [n |-> Cardinality({e \in events : /\ e.stage = stage
                                              /\ e.op = "provision"}) + 1])}
    \cup (IF od.create # "none"
          THEN {Event(stage, "create_dataset",
                      [ref |-> d, existed |-> d \in created])}
          ELSE {})
    \cup (IF ot.create # "none"
          THEN {Event(stage, "create_table",
                      [ref |-> t, existed |-> t \in created])}
          ELSE {})
    \cup (IF od.create = "raised" \/ ot.create = "raised"
          THEN {Event(stage, "create_failed", [ref |-> t])}
          ELSE {})

\* process_and_load_weather_data up to the loop: ensure_dataset_exists,
\* then create_table_if_not_exists, whose result is table_ref; a failed
\* create raises out of the function.  Then `if not files`.
provision_table ==
    /\ stage = "load_weather"
    /\ stage_pc = "provision"
    /\ LET t == ProvisionedTable(weather_config)
           d == DatasetOf(t)
       IN \E od \in EnsureOutcomes(d \in created),
             reached \in EnsureOutcomes(t \in created) :
             LET ot == IF Ensured(od) THEN reached ELSE NotReached
             IN /\ faults + od.faults + ot.faults <= MaxFaults
                /\ faults' = faults + od.faults + ot.faults
                /\ created' = created
                      \cup (IF od.create = "done" THEN {d} ELSE {})
                      \cup (IF ot.create = "done" THEN {t} ELSE {})
                /\ events' = events \cup ProvisionEvents(d, od, t, ot)
                /\ IF Ensured(od) /\ Ensured(ot)
                   THEN /\ stage_error' = stage_error
                        /\ table_ref' = t
                        /\ item' = 1
                        /\ stage_pc' = IF weather_files = <<>>
                                       THEN "finally" ELSE "check"
                   ELSE /\ stage_error' = TRUE
                        /\ stage_pc' = "finally"
                        /\ UNCHANGED <<table_ref, item>>
    /\ UNCHANGED <<pipe_run, done_stages, failed_stages, stage, warehouse,
                   existing_files, weather_files, store_at_start, bucket,
                   pipeRest>>

WeatherRow(table, source_file, run) ==
    [table |-> table, source_file |-> source_file, run |-> run]

\* One iteration of the loop over the new files: the known-file test,
\* process_weather_file (None when the download or the parsing raised)
\* and load_to_bigquery (False when the load job raised).
load_weather_file ==
    /\ stage = "load_weather"
    /\ stage_pc = "check"
    /\ \/ /\ weather_files[item].name \in existing_files
          /\ UNCHANGED <<warehouse, faults, events>>
       \/ /\ weather_files[item].name \notin existing_files
          /\ faults < MaxFaults
          /\ faults' = faults + 1
          /\ events' = events \cup
                {Event(stage, "normalize", weather_files[item])}
          /\ UNCHANGED warehouse
       \/ /\ weather_files[item].name \notin existing_files
          /\ faults' = faults
          /\ events' = events \cup
                {Event(stage, "normalize", weather_files[item]),
                 Event(stage, "append", weather_files[item])}
          /\ warehouse' = warehouse \cup
                {WeatherRow(table_ref, weather_files[item].name, pipe_run)}
    /\ Advance(Len(weather_files))
    /\ UNCHANGED <<pipe_run, done_stages, failed_stages, stage, stage_error,
                   created, existing_files, weather_files, table_ref,
                   store_at_start, bucket, pipeRest>>

\* finally: upload_log inside try/except; the pipeline's own exception is
\* raised again to main, which raises it to the caller.
load_weather_upload_log ==
    /\ stage = "load_weather"
    /\ stage_pc = "finally"
    /\ \/ /\ faults < MaxFaults
          /\ faults' = faults + 1
          /\ bucket' = bucket
          \* except Exception: print(...); print(log_stream.getvalue())
          /\ events' = events \cup ShipEvents({"ship_log", "ship_failed",
                                                "print_log"})
       \/ /\ faults' = faults
          /\ bucket' = bucket \cup {LogObject(stage, pipe_run)}
          /\ events' = events \cup ShipEvents({"ship_log"})
    /\ EndStage(stage_error)
    /\ UNCHANGED <<pipe_run, stage_error, warehouse, created, existing_files,
                   weather_files, table_ref, store_at_start, pipeRest>>

PipeNext ==
    \/ StartRun
    \/ extract_main
    \/ extract_weather_main
    \/ check_file_exists
    \/ fetch_item
    \/ upload_to_gcs
    \/ upload_log
    \/ load_main
    \/ load_weather_main
    \/ provision_table
    \/ load_weather_file
    \/ load_weather_upload_log

(***************************************************************************)
(* The four entry points, from the call to the return: how the arguments   *)
(* are bound, the configuration check, the clients, the stage body (as     *)
(* one step) and the finally block.                                        *)
(***************************************************************************)
\* How an entry point is started: from the command line, with or without
\* --config and with or without --workers N (workers = 0: not given), or
\* by the scheduler's PythonOperator, which calls
\* python_callable(config_path=...) with AIRFLOW_CTX_DAG_ID set.
CliCall(withConfig, count) ==
    [mode |-> "cli", config |-> withConfig, workers |-> count]

SchedulerCall == [mode |-> "scheduler", config |-> TRUE, workers |-> 0]

Calls ==
    {CliCall(c, n) : c \in BOOLEAN, n \in 0 .. MaxWorkers} \cup {SchedulerCall}

ConfigKeys ==
    {"project_id", "bucket_name", "gcs_folder", "log_folder", "table_id",
     "location"}

\* required_params of extract.main, extract_weather.main and
\* load_weather_pipeline; load_pipeline checks no key, initialize_clients
\* reads project_id and location.
RequiredParams(s) ==
    CASE s = "load_weather" ->
           {"project_id", "bucket_name", "gcs_folder", "log_folder",
            "table_id"}
      [] s = "load" -> {"project_id", "location"}
      [] OTHER -> {"project_id", "bucket_name", "gcs_folder", "log_folder"}

\* missing_params = [param for param in required_params if param not in
\* config]
MissingParams_Unchecked(s, keys) == {}

MissingParams(s, keys) == RequiredParams(s) \ keys

\* Whether the entry point takes the keyword config_path: only
\* load.main(config_path=None) does.
AcceptsConfigPath(s) == s = "load"

\* What the argument parser of the entry point knows besides --config.
ParserAccepts(s, call) == call.config /\ call.workers = 0

\* What the body of a stage does to the outside world.
BodyOps(s) ==
    IF s = "load_weather" THEN {"store", "warehouse"} ELSE {"store", "http"}

EntryIdle ==
    /\ entry_stage = "extract"
    /\ entry_call = SchedulerCall
    /\ entry_keys = {}
    /\ entry_pc = "idle"
    /\ entry_ops = {}
    /\ entry_result = "none"
    /\ entry_pool = 0
    /\ entry_body_raised = FALSE

EntryInit ==
    /\ entry_stage \in Stages
    /\ entry_call \in Calls
    /\ entry_keys \in SUBSET ConfigKeys
    /\ entry_pc = "called"
    /\ entry_ops = {}
    /\ entry_result = "none"
    /\ entry_pool = 0
    /\ entry_body_raised = FALSE

EntryEnds(result) ==
    /\ entry_pc' = "ended"
    /\ entry_result' = result

\* The call itself.  From the command line parse_args() exits on a
\* missing --config or an option it does not know (SystemExit).  The
\* scheduler passes config_path; a main() without that parameter either
\* gets it all the same (TypeError) or, when the operator drops the
\* keywords the callable does not declare, is called without arguments:
\* the extract stages then parse the worker's own command line, which
\* has no --config (SystemExit), and load_weather.main, seeing
\* AIRFLOW_CTX_DAG_ID, runs load_weather_pipeline() on its default path.
main_call ==
    /\ entry_pc = "called"
    /\ IF entry_call.mode = "scheduler"
       THEN IF AcceptsConfigPath(entry_stage)
            THEN entry_pc' = "config" /\ entry_result' = entry_result
            ELSE \/ EntryEnds("raised")
                 \/ IF entry_stage = "load_weather"
                    THEN entry_pc' = "config" /\ entry_result' = entry_result
                    ELSE EntryEnds("exit")
       ELSE IF ParserAccepts(entry_stage, entry_call)
            THEN entry_pc' = "config" /\ entry_result' = entry_result
            ELSE EntryEnds("exit")
    /\ UNCHANGED <<entry_stage, entry_call, entry_keys, entry_ops, entry_pool,
                   entry_body_raised, exceptEntry>>

\* load_config and the required-keys check: print the missing keys and
\* return.  load_pipeline instead reads and parses the file and fails to
\* unpack setup_logging(): it prints the error and returns.
main_config ==
    /\ entry_pc = "config"
    /\ IF entry_stage = "load"
       THEN /\ entry_ops' = entry_ops \cup {"load_config", "print_error"}
            /\ EntryEnds("returned")
       ELSE IF MissingParams(entry_stage, entry_keys) # {}
            THEN /\ entry_ops' =
                      entry_ops \cup {"load_config", "print_missing"}
                 /\ EntryEnds("returned")
            ELSE /\ entry_ops' = entry_ops \cup {"load_config"}
                 /\ entry_pc' = "clients"
                 /\ entry_result' = entry_result
    /\ UNCHANGED <<entry_stage, entry_call, entry_keys, entry_pool,
                   entry_body_raised, exceptEntry>>

\* init_logging and create_gcs_client / create_gcp_clients.
main_clients ==
    /\ entry_pc = "clients"
    /\ entry_ops' = entry_ops \cup {"client"}
    /\ entry_pc' = "body"
    /\ UNCHANGED <<entry_stage, entry_call, entry_keys, entry_result,
                   entry_pool, entry_body_raised, exceptEntry>>

\* The try block, as one step: it works on the store and the remote
\* source or the warehouse, and it completes or raises.
main_body ==
    /\ entry_pc = "body"
    /\ entry_ops' = entry_ops \cup BodyOps(entry_stage)
    /\ entry_body_raised' \in BOOLEAN
    /\ entry_pc' = "finally"
    /\ UNCHANGED <<entry_stage, entry_call, entry_keys, entry_result,
                   entry_pool, exceptEntry>>

\* except / finally.  The extract stages log the body's exception and let
\* a failed upload_log raise; load_weather_pipeline raises the body's
\* exception again and prints the log when upload_log fails.
main_finally ==
    /\ entry_pc = "finally"
    /\ \E shipFails \in BOOLEAN :
          IF entry_stage = "load_weather"
          THEN /\ entry_ops' = entry_ops \cup {"ship_log"} \cup
                      (IF shipFails THEN {"print_log"} ELSE {})
               /\ EntryEnds(IF entry_body_raised THEN "raised"
                            ELSE "returned")
          ELSE /\ entry_ops' = entry_ops \cup {"ship_log"}
               /\ EntryEnds(IF shipFails THEN "raised" ELSE "returned")
    /\ UNCHANGED <<entry_stage, entry_call, entry_keys, entry_pool,
                   entry_body_raised, exceptEntry>>

EntryNext ==
    \/ main_call
    \/ main_config
    \/ main_clients
    \/ main_body
    \/ main_finally

(***************************************************************************)
(* One item of extract.process_files that is not in the store yet: the     *)
(* download, the column filter and the upload.                             *)
(***************************************************************************)
Columns == 1 .. MaxColumns

\* A response body: a readable Parquet file with its columns, bytes that
\* are not Parquet, or no bytes at all.
ParquetBody(cols) == [kind |-> "parquet", columns |-> cols]

OtherBody == [kind |-> "other", columns |-> {}]

EmptyBody == [kind |-> "empty", columns |-> {}]

NoContent == [kind |-> "none", columns |-> {}]

Bodies ==
    {ParquetBody(c) : c \in SUBSET Columns \ {{}}} \cup {OtherBody, EmptyBody}

\* requests.get: a status code, or an exception.
Responses == {"200", "404", "500", "exception"}

\* bool(content) in `if content:`
Truthy(content) == content.kind \in {"parquet", "other"}

\* columns_to_read = [col for col in selected_columns if col in
\* available_columns]
ColumnsToRead(selected, available) == selected \cap available

\* if not columns_to_read: warning, return response.content
OnNoColumns_Fail(body) == NoContent

OnNoColumns(body) == body

\* except Exception inside the filter: error logged, return
\* response.content
OnFilterError_Absent(body) == NoContent

OnFilterError(body) == body

\* fetch_and_filter_file(url, selected_columns, logger): what it returns
\* and what it logs.  readRaises: pq.read_table / pq.write_table raises.
FetchResult(content, log) == [content |-> content, log |-> log]

fetch_and_filter_file(in, readRaises) ==
    IF in.response = "exception" THEN FetchResult(NoContent, {"error_download"})
    ELSE IF in.response = "404" THEN FetchResult(NoContent, {"warning_404"})
    ELSE IF in.response # "200" THEN FetchResult(NoContent, {"error_status"})
    ELSE IF in.selected = {} \/ ~in.parquet_url
    THEN FetchResult(in.body, {"info_no_filter"})
    ELSE IF in.body.kind # "parquet"
    THEN FetchResult(OnFilterError(in.body), {"error_filter"})
    ELSE IF ColumnsToRead(in.selected, in.body.columns) = {}
    THEN FetchResult(OnNoColumns(in.body), {"warning_no_columns"})
    ELSE IF readRaises
    THEN FetchResult(OnFilterError(in.body), {"info_filter", "error_filter"})
    ELSE FetchResult(ParquetBody(ColumnsToRead(in.selected, in.body.columns)),
                     {"info_filter"})

FetchInputs ==
    [response : Responses, parquet_url : BOOLEAN, selected : SUBSET Columns,
     body : Bodies]

FetchIdle ==
    /\ fetch_pc = "idle"
    /\ fetch_in = [response |-> "404", parquet_url |-> TRUE, selected |-> {},
                   body |-> EmptyBody]
    /\ fetch_content = NoContent
    /\ fetch_log = {}
    /\ fetch_stored = NoContent
    /\ fetch_put = "none"
    /\ files_processed = 0

FetchInit ==
    /\ fetch_pc = "start"
    /\ fetch_in \in FetchInputs
    /\ fetch_content = NoContent
    /\ fetch_log = {}
    /\ fetch_stored = NoContent
    /\ fetch_put = "none"
    /\ files_processed = 0

\* content = fetch_and_filter_file(file_info["url"], selected_columns,
\* logger)
process_files_fetch ==
    /\ fetch_pc = "start"
    /\ \E readRaises \in BOOLEAN :
          LET r == fetch_and_filter_file(fetch_in, readRaises)
          IN /\ fetch_content' = r.content
             /\ fetch_log' = r.log
    /\ fetch_pc' = "fetched"
    /\ UNCHANGED <<fetch_in, fetch_stored, fetch_put, files_processed,
                   exceptFetch>>

\* if content: upload_to_gcs(...); files_processed += 1.  The upload may
\* raise, and the exception leaves process_files.
process_files_upload ==
    /\ fetch_pc = "fetched"
    /\ Truthy(fetch_content)
    /\ \E putRaises \in BOOLEAN :
          IF putRaises
          THEN /\ fetch_put' = "raised"
               /\ UNCHANGED <<fetch_stored, files_processed>>
          ELSE /\ fetch_put' = "stored"
               /\ fetch_stored' = fetch_content
               /\ files_processed' = files_processed + 1
    /\ fetch_pc' = "done"
    /\ UNCHANGED <<fetch_in, fetch_content, fetch_log, exceptFetch>>

\* A falsy content: nothing is uploaded or counted, the loop goes on.
process_files_skip ==
    /\ fetch_pc = "fetched"
    /\ ~Truthy(fetch_content)
    /\ fetch_pc' = "done"
    /\ UNCHANGED <<fetch_in, fetch_content, fetch_log, fetch_stored,
                   fetch_put, files_processed, exceptFetch>>

FetchNext ==
    \/ process_files_fetch
    \/ process_files_upload
    \/ process_files_skip

(***************************************************************************)
(* load_weather.clean_numeric_data on one column of the frame.  A cell is  *)
(* a number, a missing value (NaN), None, or a string; a string is either  *)
(* the decimal text of a number or some other word.                        *)
(***************************************************************************)
Cell(kind, word, num) == [kind |-> kind, word |-> word, num |-> num]

NumCell(n) == Cell("num", "", n)

NaNCell == Cell("nan", "", 0)

NoneCell == Cell("none", "", 0)

WordCell(w) == Cell("word", w, 0)

NumeralCell(n) == Cell("numeral", "", n)

\* ['M', 'NA', 'None', 'null', '', 'nan']
Sentinels == {"M", "NA", "None", "null", "", "nan"}

\* Other strings a cell may hold: a trace marker, a padded sentinel, a
\* malformed number.
OtherWords == {"T", " M", "1.2.3"}

Numbers == (0 - MaxNum) .. MaxNum

InputCells ==
    {NumCell(n) : n \in Numbers} \cup {NumeralCell(n) : n \in Numbers} \cup
    {WordCell(w) : w \in Sentinels \cup OtherWords} \cup {NaNCell}

numeric_columns == {"tmpf", "p01i", "vsby", "sknt", "gust", "lon", "lat"}

\* The columns process_weather_file keeps that are not numeric.
OtherColumns == {"station", "skyc1"}

\* str(cell), per cell of df[col].astype(str)
AsStr(c) ==
    CASE c.kind = "num" -> NumeralCell(c.num)
      [] c.kind = "nan" -> WordCell("nan")
      [] c.kind = "none" -> WordCell("None")
      [] OTHER -> c

IsSentinel(c) == c.kind = "word" /\ c.word \in Sentinels

\* Series.replace(list, None) with the value given: every listed cell
\* becomes None.  The mutant is replace without a value, which fills a
\* listed cell from the cell before it.
RECURSIVE ReplaceSentinels_Pad(_)
ReplaceSentinels_Pad(col) ==
    IF Len(col) <= 1 THEN col
    ELSE LET head == ReplaceSentinels_Pad(SubSeq(col, 1, Len(col) - 1))
             last == col[Len(col)]
         IN Append(head, IF IsSentinel(last) THEN head[Len(head)] ELSE last)

ReplaceSentinels(col) ==
    [i \in 1 .. Len(col) |-> IF IsSentinel(col[i]) THEN NoneCell ELSE col[i]]

\* pd.to_numeric(errors='coerce'), per cell: the text of a number parses
\* to that number, None and every other string become NaN.
ToNumeric(c) ==
    CASE c.kind \in {"num", "numeral"} -> NumCell(c.num)
      [] OTHER -> NaNCell

RECURSIVE SeqsUpTo(_, _)
SeqsUpTo(S, n) ==
    IF n = 0 THEN {<<>>}
    ELSE LET shorter == SeqsUpTo(S, n - 1)
         IN shorter \cup {Append(q, x) : q \in shorter, x \in S}

CleanIdle ==
    /\ clean_pc = "idle"
    /\ clean_name = "tmpf"
    /\ clean_in = <<>>
    /\ clean_col = <<>>

CleanInit ==
    /\ clean_pc = "start"
    /\ clean_name \in numeric_columns \cup OtherColumns
    /\ clean_in \in SeqsUpTo(InputCells, MaxCells)
    /\ clean_col = clean_in

\* A column that is not in numeric_columns is left as it is.
clean_skip ==
    /\ clean_pc = "start"
    /\ clean_name \notin numeric_columns
    /\ clean_pc' = "done"
    /\ UNCHANGED <<clean_name, clean_in, clean_col, exceptClean>>

\* df[col] = df[col].astype(str)
clean_astype ==
    /\ clean_pc = "start"
    /\ clean_name \in numeric_columns
    /\ clean_col' = [i \in 1 .. Len(clean_col) |-> AsStr(clean_col[i])]
    /\ clean_pc' = "str"
    /\ UNCHANGED <<clean_name, clean_in, exceptClean>>

\* df[col] = df[col].replace([...], None)
clean_replace ==
    /\ clean_pc = "str"
    /\ clean_col' = ReplaceSentinels(clean_col)
    /\ clean_pc' = "replaced"
    /\ UNCHANGED <<clean_name, clean_in, exceptClean>>

\* df[col] = pd.to_numeric(df[col], errors='coerce')
clean_to_numeric ==
    /\ clean_pc = "replaced"
    /\ clean_col' = [i \in 1 .. Len(clean_col) |-> ToNumeric(clean_col[i])]
    /\ clean_pc' = "done"
    /\ UNCHANGED <<clean_name, clean_in, exceptClean>>

CleanNext ==
    \/ clean_skip
    \/ clean_astype
    \/ clean_replace
    \/ clean_to_numeric

(***************************************************************************)
(* The task graph of dags/dbt_elt_dag.py, run once by the scheduler.  A    *)
(* task starts when every task upstream of it has succeeded (the default   *)
(* trigger rule); its callable or command then succeeds or fails, and a    *)
(* failed task is retried `retries` times.                                 *)
(***************************************************************************)
Tasks ==
    {"setup_environment", "download_configs", "update_profiles",
     "extract_taxi", "extract_weather", "load_taxi", "load_weather",
     "dbt_run"}

\* The direct dependencies set with >>.  The mutant starts every stage
\* right after update_profiles.
TaskUpstream_Flat(t) ==
    CASE t = "setup_environment" -> {}
      [] t = "download_configs" -> {"setup_environment"}
      [] t = "update_profiles" -> {"download_configs"}
      [] OTHER -> {"update_profiles"}

TaskUpstream(t) ==
    CASE t = "setup_environment" -> {}
      [] t = "download_configs" -> {"setup_environment"}
      [] t = "update_profiles" -> {"download_configs"}
      [] t = "extract_taxi" -> {"update_profiles"}
      [] t = "extract_weather" -> {"update_profiles"}
      [] t = "load_taxi" -> {"extract_taxi"}
      [] t = "load_weather" -> {"extract_weather"}
      [] t = "dbt_run" -> {"load_taxi", "load_weather"}

\* default_args['retries']
Retries == 2

DagIdle ==
    /\ task_state = [t \in Tasks |-> "idle"]
    /\ task_tries = [t \in Tasks |-> 0]

DagInit ==
    /\ task_state = [t \in Tasks |-> "none"]
    /\ task_tries = [t \in Tasks |-> 0]

\* The scheduler queues a task whose upstream tasks have all succeeded.
TaskStart(t) ==
    /\ task_state[t] \in {"none", "up_for_retry"}
    /\ \A u \in TaskUpstream(t) : task_state[u] = "success"
    /\ task_state' = [task_state EXCEPT ![t] = "running"]
    /\ task_tries' = [task_tries EXCEPT ![t] = @ + 1]
    /\ UNCHANGED exceptDag

TaskSucceeds(t) ==
    /\ task_state[t] = "running"
    /\ task_state' = [task_state EXCEPT ![t] = "success"]
    /\ UNCHANGED <<task_tries, exceptDag>>

TaskFails(t) ==
    /\ task_state[t] = "running"
    /\ task_state' = [task_state EXCEPT ![t] =
                          IF task_tries[t] <= Retries THEN "up_for_retry"
                          ELSE "failed"]
    /\ UNCHANGED <<task_tries, exceptDag>>

\* A task below a failed task is never run.
TaskUpstreamFailed(t) ==
    /\ task_state[t] = "none"
    /\ \E u \in TaskUpstream(t) :
          task_state[u] \in {"failed", "upstream_failed"}
    /\ task_state' = [task_state EXCEPT ![t] = "upstream_failed"]
    /\ UNCHANGED <<task_tries, exceptDag>>

RunTask == \E t \in Tasks : TaskStart(t)

EndTask == \E t \in Tasks : TaskSucceeds(t)

FailTask == \E t \in Tasks : TaskFails(t)

SkipTask == \E t \in Tasks : TaskUpstreamFailed(t)

DagNext ==
    \/ RunTask
    \/ EndTask
    \/ FailTask
    \/ SkipTask

(***************************************************************************)
(* extract_weather.get_date_ranges: the monthly windows from the           *)
(* configured start date to now.  A date is a calendar day; `now` is a day *)
(* and whether any time has passed since its midnight, which is what the   *)
(* comparisons of datetime values depend on.                               *)
(***************************************************************************)
Date(y, m, d) == [year |-> y, month |-> m, day |-> d]

IsLeap(y) == (y % 4 = 0 /\ y % 100 # 0) \/ y % 400 = 0

DaysIn(y, m) ==
    IF m = 2 THEN (IF IsLeap(y) THEN 29 ELSE 28)
    ELSE IF m \in {4, 6, 9, 11} THEN 30 ELSE 31

DateBefore(a, b) ==
    \/ a.year < b.year
    \/ a.year = b.year /\ a.month < b.month
    \/ a.year = b.year /\ a.month = b.month /\ a.day < b.day

\* current_date < end_date: current_date is a midnight.
BeforeNow(current, endDate) ==
    DateBefore(current, endDate.date) \/ (current = endDate.date /\ endDate.past_midnight)

\* datetime(year + 1, 1, 1) / datetime(year, month + 1, 1)
FirstOfNextMonth(d) ==
    IF d.month = 12 THEN Date(d.year + 1, 1, 1)
    ELSE Date(d.year, d.month + 1, 1)

\* next_month - timedelta(days=1)
LastDayOfMonth(d) == Date(d.year, d.month, DaysIn(d.year, d.month))

\* min(next_month - timedelta(days=1), end_date), as the day that
\* strftime("%Y-%m-%d") prints.  The mutant forgets the min.
PeriodEnd_Uncapped(current, endDate) == LastDayOfMonth(current)

PeriodEnd(current, endDate) ==
    IF DateBefore(endDate.date, LastDayOfMonth(current)) THEN endDate.date
    ELSE LastDayOfMonth(current)

Window(current, endDate) ==
    [start_date |-> current, end_date |-> PeriodEnd(current, endDate),
     year_month |-> <<current.year, current.month>>]

\* The days a start date or the current date is drawn from: the first,
\* the 15th and the last day of every month of two years.
SampleDates ==
    {Date(y, m, d) : y \in MinYear .. MinYear + 1, m \in Months, d \in {1, 15, 28}}
    \cup {LastDayOfMonth(Date(y, m, 1)) : y \in MinYear .. MinYear + 1, m \in Months}

DatesIdle ==
    /\ dr_pc = "idle"
    /\ dr_start = Date(MinYear, 1, 1)
    /\ dr_now = [date |-> Date(MinYear, 1, 1), past_midnight |-> FALSE]
    /\ dr_current = Date(MinYear, 1, 1)
    /\ date_ranges = <<>>

\* start_date = strptime(config["start_date"]); end_date = datetime.now();
\* date_ranges = []; current_date = start_date
DatesInit ==
    /\ dr_pc = "loop"
    /\ dr_start \in SampleDates
    /\ dr_now \in [date : SampleDates, past_midnight : BOOLEAN]
    /\ dr_current = dr_start
    /\ date_ranges = <<>>

\* One iteration of `while current_date < end_date`.
get_date_ranges_iter ==
    /\ dr_pc = "loop"
    /\ BeforeNow(dr_current, dr_now)
    /\ date_ranges' = Append(date_ranges, Window(dr_current, dr_now))
    /\ dr_current' = FirstOfNextMonth(dr_current)
    /\ UNCHANGED <<dr_pc, dr_start, dr_now, exceptDates>>

\* return date_ranges
get_date_ranges_return ==
    /\ dr_pc = "loop"
    /\ ~BeforeNow(dr_current, dr_now)
    /\ dr_pc' = "returned"
    /\ UNCHANGED <<dr_start, dr_now, dr_current, date_ranges, exceptDates>>

DatesNext ==
    \/ get_date_ranges_iter
    \/ get_date_ranges_return

(***************************************************************************)
(* load_weather.py, file by file: load_weather_pipeline's listing, query   *)
(* and new-files filter, then process_and_load_weather_data with           *)
(* process_weather_file and load_to_bigquery for every file, over several  *)
(* runs on an object store that does not change.                           *)
(***************************************************************************)
\* What a staged object holds: a weather CSV with data rows, a weather CSV
\* with no data row (read_csv gives an empty frame), or something read_csv
\* raises on (a folder placeholder, an object that is no CSV).
Contents == {"rows", "empty", "unreadable"}

Blob(name, content) == [name |-> name, content |-> content]

\* The base names under the weather folder: the planned windows and a
\* folder placeholder, whose base name is empty.
BlobNames ==
    {WeatherPlan[i].file_name : i \in 1 .. Len(WeatherPlan)} \cup {<<>>}

StagedFolders ==
    UNION {{{Blob(n, c[n]) : n \in S} : c \in [S -> Contents]} :
              S \in SUBSET BlobNames}

LoadedRow(source_file, run) == [source_file |-> source_file, run |-> run]

LogLine(level, what, name) == [level |-> level, what |-> what, name |-> name]

\* process_weather_file: the frame, or None when the download or read_csv
\* raised (logged as an error) or when the frame is empty (a warning).
process_weather_file(blob, downloadRaises) ==
    IF downloadRaises \/ blob.content = "unreadable"
    THEN [df |-> "None", log |-> {LogLine("error", "process", blob.name)}]
    ELSE IF blob.content = "empty"
    THEN [df |-> "None", log |-> {LogLine("warning", "empty", blob.name)}]
    ELSE [df |-> "frame", log |-> {LogLine("info", "processed", blob.name)}]

\* load_to_bigquery: True, or False when the load job raised.
load_to_bigquery(jobRaises) == ~jobRaises

\* if load_to_bigquery(...): files_processed += 1.  The mutant counts the
\* file whatever load_to_bigquery returned.
Counted_Always(loaded) == 1

Counted(loaded) == IF loaded THEN 1 ELSE 0

\* The table the query reads, as far as this run can see it: the rows the
\* loads have written when table_id names the table the loads go to, and
\* nothing otherwise.
KnownFiles(sameTable, rows, queryRaises) ==
    IF queryRaises \/ ~sameTable THEN {}
    ELSE {r.source_file : r \in rows}

WloadIdle ==
    /\ wl_pc = "idle"
    /\ wl_run = 0
    /\ wl_store = {}
    /\ wl_same_table = TRUE
    /\ wl_rows = {}
    /\ wl_existing = {}
    /\ wl_new_files = <<>>
    /\ wl_i = 0
    /\ wl_files_processed = 0
    /\ wl_log = {}
    /\ wl_faults = 0
    /\ wl_clean = <<>>

WloadInit ==
    /\ wl_pc = "start"
    /\ wl_run = 1
    /\ wl_store \in StagedFolders
    /\ wl_same_table \in BOOLEAN
    /\ wl_rows = {}
    /\ wl_existing = {}
    /\ wl_new_files = <<>>
    /\ wl_i = 0
    /\ wl_files_processed = 0
    /\ wl_log = {}
    /\ wl_faults = 0
    /\ wl_clean = <<>>

Fault(happens) ==
    /\ happens => wl_faults < MaxFaults
    /\ wl_faults' = IF happens THEN wl_faults + 1 ELSE wl_faults

\* load_weather_pipeline's try block up to the call of
\* process_and_load_weather_data, and that function up to its loop: the
\* listing (it may raise), the query (set() when it raises), the new files
\* and the provisioning (it may raise).
weather_new_files ==
    /\ wl_pc = "start"
    /\ \E listRaises, queryRaises, provisionRaises \in BOOLEAN :
          /\ Cardinality({r \in {listRaises, queryRaises, provisionRaises} :
                            r}) <= 1
          /\ Fault(listRaises \/ queryRaises \/ provisionRaises)
          /\ IF listRaises
             THEN /\ wl_pc' = "raised"
                  /\ UNCHANGED <<wl_existing, wl_new_files>>
             ELSE /\ wl_existing' =
                        KnownFiles(wl_same_table, wl_rows, queryRaises)
                  /\ wl_new_files' \in
                        Orderings({b \in wl_store :
                                      b.name \notin wl_existing'})
                  /\ wl_pc' = IF provisionRaises THEN "raised" ELSE "loop"
    /\ wl_i' = 1
    /\ wl_files_processed' = 0
    /\ wl_log' = {}
    /\ UNCHANGED <<wl_run, wl_store, wl_same_table, wl_rows, wl_clean,
                   exceptWload>>

\* One iteration of `for blob in files`.
weather_file ==
    /\ wl_pc = "loop"
    /\ wl_i <= Len(wl_new_files)
    /\ LET blob == wl_new_files[wl_i]
       IN IF blob.name \in wl_existing
          THEN /\ wl_log' = wl_log \cup {LogLine("info", "known", blob.name)}
               /\ UNCHANGED <<wl_rows, wl_files_processed, wl_faults>>
          ELSE \E downloadRaises, jobRaises \in BOOLEAN :
                  LET p == process_weather_file(blob, downloadRaises)
                      l == load_to_bigquery(jobRaises)
                  IN /\ ~(downloadRaises /\ jobRaises)
                     /\ p.df = "None" => ~jobRaises
                     /\ Fault(downloadRaises \/ jobRaises)
                     /\ IF p.df = "None"
                        THEN /\ wl_log' = wl_log \cup p.log
                             /\ UNCHANGED <<wl_rows, wl_files_processed>>
                        ELSE /\ wl_rows' = wl_rows \cup
                                   (IF l THEN {LoadedRow(blob.name, wl_run)}
                                    ELSE {})
                             /\ wl_files_processed' =
                                   wl_files_processed + Counted(l)
                             /\ wl_log' = wl_log \cup p.log \cup
                                   {LogLine(IF l THEN "info" ELSE "error",
                                            "load", blob.name)}
    /\ wl_i' = wl_i + 1
    /\ UNCHANGED <<wl_pc, wl_run, wl_store, wl_same_table, wl_existing,
                   wl_new_files, wl_clean, exceptWload>>

\* return files_processed
weather_return ==
    /\ wl_pc = "loop"
    /\ wl_i > Len(wl_new_files)
    /\ wl_pc' = "returned"
    /\ UNCHANGED <<wl_run, wl_store, wl_same_table, wl_rows, wl_existing,
                   wl_new_files, wl_i, wl_files_processed, wl_log, wl_faults,
                   wl_clean, exceptWload>>

\* The next scheduled run, on the same store.  wl_clean keeps, run by run,
\* whether no operation on the store or the warehouse failed.
weather_next_run ==
    /\ wl_pc \in {"returned", "raised"}
    /\ wl_run < Runs
    /\ wl_run' = wl_run + 1
    /\ wl_clean' = Append(wl_clean, wl_pc = "returned" /\ wl_faults = 0)
    /\ wl_faults' = 0
    /\ wl_pc' = "start"
    /\ UNCHANGED <<wl_store, wl_same_table, wl_rows, wl_existing,
                   wl_new_files, wl_i, wl_files_processed, wl_log,
                   exceptWload>>

WloadNext ==
    \/ weather_new_files
    \/ weather_file
    \/ weather_return
    \/ weather_next_run

(***************************************************************************)
(* extract_weather.process_weather_data for one station, run after run as  *)
(* the clock advances: the windows of get_date_ranges, the destination     *)
(* path of each, and the upload of those that are not staged yet.          *)
(***************************************************************************)
\* get_date_ranges as a function of the start date and of now.
RECURSIVE DateRanges(_, _)
DateRanges(current, endDate) ==
    IF BeforeNow(current, endDate)
    THEN <<Window(current, endDate)>>
         \o DateRanges(FirstOfNextMonth(current), endDate)
    ELSE <<>>

\* strftime("%Y-%m-%d") with the dashes removed: eight digits.
Ymd(d) == d.year * 10000 + d.month * 100 + d.day

\* f"{gcs_folder}{year_month}/{station_id}_{start}_{end}.csv"
StagedWindow(station, w) ==
    [year_month |-> w.year_month,
     file_name |-> WeatherFileName(station, Ymd(w.start_date),
                                   Ymd(w.end_date))]

\* The dates a run may happen at: the sample days of the first months.
RunDates ==
    {d \in SampleDates : d.year = MinYear /\ d.month <= PlanMonths + 1}

Later(a, b) ==
    \/ DateBefore(a.date, b.date)
    \/ a.date = b.date /\ ~a.past_midnight /\ b.past_midnight

WstageIdle ==
    /\ ws_start = Date(MinYear, 1, 1)
    /\ ws_now = [date |-> Date(MinYear, 1, 1), past_midnight |-> FALSE]
    /\ ws_store = {}
    /\ ws_runs = 0

WstageInit ==
    /\ ws_start \in RunDates
    /\ ws_now \in [date : RunDates, past_midnight : BOOLEAN]
    /\ ws_store = {}
    /\ ws_runs = 0

\* One run of process_weather_data: every window whose path is not in the
\* store is requested, and is uploaded when the source answered with data
\* and no step raised; an exception ends the loop, no data skips the item.
process_weather_data ==
    /\ ws_runs < Runs
    /\ ws_runs' = ws_runs + 1
    /\ LET ranges == DateRanges(ws_start, ws_now)
           paths == {StagedWindow("JFK", ranges[i]) : i \in 1 .. Len(ranges)}
       IN \E uploaded \in SUBSET (paths \ ws_store) :
             ws_store' = ws_store \cup uploaded
    /\ UNCHANGED <<ws_start, ws_now, exceptWstage>>

\* Time passes between two runs.
ClockAdvances ==
    /\ ws_runs < Runs
    /\ \E t \in [date : RunDates, past_midnight : BOOLEAN] :
          /\ Later(ws_now, t)
          /\ ws_now' = t
    /\ UNCHANGED <<ws_start, ws_store, ws_runs, exceptWstage>>

WstageNext ==
    \/ process_weather_data
    \/ ClockAdvances

(***************************************************************************)
(* Specifications.                                                         *)
(***************************************************************************)
ClockIdle ==
    /\ now = [year |-> MinYear, month |-> 1]
    /\ ticks = 0

\* The parts added after the pipeline, idle.
MoreIdle ==
    /\ EntryIdle /\ FetchIdle /\ CleanIdle /\ DagIdle /\ DatesIdle /\ WloadIdle
    /\ WstageIdle

\* The planner, the configuration, the load call and the pipeline, idle.
BaseIdle == ClockIdle /\ PlanIdle /\ CfgIdle /\ LoadIdle /\ PipeIdle

InitPlan == PlanInit /\ CfgIdle /\ LoadIdle /\ PipeIdle /\ MoreIdle

SpecPlan == InitPlan /\ [][PlanNext]_vars

InitConfig ==
    CfgInit /\ ClockIdle /\ PlanIdle /\ LoadIdle /\ PipeIdle /\ MoreIdle

InitLoad ==
    LoadInit /\ ClockIdle /\ PlanIdle /\ CfgIdle /\ PipeIdle /\ MoreIdle

SpecLoad == InitLoad /\ [][LoadNext]_vars

SpecConfig == InitConfig /\ [][CfgNext]_vars

InitPipe == PipeInit /\ ClockIdle /\ PlanIdle /\ CfgIdle /\ MoreIdle

InitEntry ==
    /\ EntryInit /\ BaseIdle /\ FetchIdle /\ CleanIdle /\ DagIdle
    /\ DatesIdle /\ WloadIdle /\ WstageIdle

SpecEntry == InitEntry /\ [][EntryNext]_vars

InitFetch ==
    /\ FetchInit /\ BaseIdle /\ EntryIdle /\ CleanIdle /\ DagIdle
    /\ DatesIdle /\ WloadIdle /\ WstageIdle

SpecFetch == InitFetch /\ [][FetchNext]_vars

InitClean ==
    /\ CleanInit /\ BaseIdle /\ EntryIdle /\ FetchIdle /\ DagIdle
    /\ DatesIdle /\ WloadIdle /\ WstageIdle

SpecClean == InitClean /\ [][CleanNext]_vars

InitDag ==
    /\ DagInit /\ BaseIdle /\ EntryIdle /\ FetchIdle /\ CleanIdle
    /\ DatesIdle /\ WloadIdle /\ WstageIdle

SpecDag == InitDag /\ [][DagNext]_vars

InitDates ==
    /\ DatesInit /\ BaseIdle /\ EntryIdle /\ FetchIdle /\ CleanIdle /\ DagIdle
    /\ WloadIdle /\ WstageIdle

InitWload ==
    /\ WloadInit /\ BaseIdle /\ EntryIdle /\ FetchIdle /\ CleanIdle /\ DagIdle
    /\ DatesIdle /\ WstageIdle

SpecWload == InitWload /\ [][WloadNext]_vars

InitWstage ==
    /\ WstageInit /\ BaseIdle /\ EntryIdle /\ FetchIdle /\ CleanIdle /\ DagIdle
    /\ DatesIdle /\ WloadIdle

SpecWstage == InitWstage /\ [][WstageNext]_vars

SpecDates == InitDates /\ [][DatesNext]_vars

SpecPipe == InitPipe /\ [][PipeNext]_vars

\* ======================= END OF SPECIFICATIONS =======================

(***************************************************************************)
(* Claims about generate_file_list.                                        *)
(***************************************************************************)
Ym(y, m) == y * 12 + m

\* The (year, month) a file name carries, read back from its tokens.
YearOf(name) == name[Len(file_prefix) + 2].num
MonthOf(name) == name[Len(file_prefix) + 4].num02

Emitted == {[year |-> YearOf(files[i].file_name),
             month |-> MonthOf(files[i].file_name)] : i \in 1 .. Len(files)}

\* C6: generate_file_list never emits a descriptor for a (year, month)
\* strictly in the future relative to the current date, for every
\* start_year and every current date (the clock may move during the call).
C6_NoFutureMonth ==
    \A d \in Emitted : Ym(d.year, d.month) <= Ym(now.year, now.month)

\* C6 witness: the call returned a list that holds the current month
\* itself, the last month that is not in the future.
C6_Witness ==
    /\ plan_pc = "done"
    /\ [year |-> now.year, month |-> now.month] \in Emitted
    /\ now.month < 12

ExpectedMonths(sy, t) ==
    {d \in [year : sy .. t.year, month : Months] :
        /\ Ym(sy, 1) <= Ym(d.year, d.month)
        /\ Ym(d.year, d.month) <= Ym(t.year, t.month)}

NoDuplicates(s) == \A i, j \in 1 .. Len(s) : s[i] = s[j] => i = j

\* C7: for a given current date (the clock read the same throughout the
\* call), generate_file_list returns exactly one descriptor for each
\* (year, month) from (start_year, January) through the current month,
\* and no other; none when start_year is after the current year.
C7_ExactMonths ==
    (plan_pc = "done" /\ now = called_at) =>
        /\ Emitted = ExpectedMonths(start_year, called_at)
        /\ NoDuplicates(files)
        /\ \A i \in 1 .. Len(files) :
             files[i] = Descriptor(YearOf(files[i].file_name),
                                   MonthOf(files[i].file_name))

\* C7 witness: start_year 2024 and the current date in 2024-03 give exactly
\* 2024-01, 2024-02, 2024-03.
C7_Witness ==
    /\ plan_pc = "done"
    /\ now = called_at
    /\ start_year = 2024
    /\ now = [year |-> 2024, month |-> 3]
    /\ files = <<Descriptor(2024, 1), Descriptor(2024, 2), Descriptor(2024, 3)>>

(***************************************************************************)
(* Claims about load_config.                                               *)
(***************************************************************************)
HasNoPlaceholder(v) ==
    IsStr(v) => \A i \in 1 .. Len(v.str) : ~v.str[i].ref

\* C9: when the requested section is present, load_config returns exactly
\* the non-section top-level keys overlaid with the section's keys (the
\* section's value wins), and no section name is a key of the result.
C9_SectionMerge ==
    (cfg_pc = "returned" /\ cfg_section \in Keys(cfg_document)) =>
        LET body == cfg_document.val[cfg_section].map
            globals == Keys(cfg_document) \ SectionNames
        IN /\ Keys(cfg_result) = globals \cup Keys(body)
           /\ Keys(cfg_result) \cap SectionNames = {}
           /\ \A k \in Keys(body) :
                 HasNoPlaceholder(body.val[k]) =>
                     cfg_result.val[k] = body.val[k]
           /\ \A k \in globals \ Keys(body) :
                 HasNoPlaceholder(cfg_document.val[k]) =>
                     cfg_result.val[k] = cfg_document.val[k]

\* The keys of the placeholders left in a value, at either nesting level.
PlaceholdersIn(v) ==
    IF IsStr(v) THEN {v.str[i].text : i \in {j \in 1 .. Len(v.str) : v.str[j].ref}}
    ELSE IF IsMap(v)
         THEN UNION {{v.map.val[k].str[i].text :
                         i \in {j \in 1 .. Len(v.map.val[k].str) :
                                   v.map.val[k].str[j].ref}} :
                     k \in {x \in Keys(v.map) : IsStr(v.map.val[x])}}
         ELSE {}

StringKeys(d) == {k \in Keys(d) : IsStr(d.val[k])}

\* C24: after resolve_config_references, for every configuration and every
\* order of its keys, no value of the result still holds a placeholder
\* ${key} whose key is a top-level key with a string value.
C24_NoPlaceholderLeft ==
    cfg_pc = "returned" =>
        LET resolved == resolve_config_references(cfg_document)
        IN \A k \in Keys(resolved) :
              PlaceholdersIn(resolved.val[k]) \cap StringKeys(cfg_document)
                  = {}

(***************************************************************************)
(* Claims about load_new_files and process_file.                           *)
(***************************************************************************)
Range(q) == {q[i] : i \in 1 .. Len(q)}

AllSteps == {"load", "insert", "drop"}

\* The data files staged under the configured folder.
StagedFiles == get_gcs_files(bucket)

\* C3: the new-files work set of the load stage is exactly the set of
\* staged file names minus the set of file names recorded in the
\* destination table's provenance column (the table is not written
\* between the call and the first insert, so it is compared as the pool
\* starts).
C3_DedupExact ==
    (load_pc = "pool" /\ next_item = 1) =>
        Range(new_files) = StagedFiles \ ProvenanceColumn(destination)

\* C4: no exception raised inside process_file leaves load_new_files; and
\* when the transform-insert of exactly one item raised and no step of any
\* other item did, every other item went through its three steps, the
\* call returns (number of items - 1), and one failure is logged.
C4_PartialFailureContained ==
    /\ load_pc # "raised"
    /\ \A i \in 1 .. Len(new_files) :
          (/\ load_pc = "returned"
           /\ raised[i] = "insert"
           /\ \A j \in 1 .. Len(new_files) : j # i => raised[j] = "none")
          => /\ successful_files = Len(new_files) - 1
             /\ log_errors = {new_files[i]}
             /\ \A j \in 1 .. Len(new_files) :
                   j # i => completed[j] = AllSteps /\ results[j] = "true"

\* C4 witness: three items, the second one's insert raised, the run
\* reports 2 successes and the third item was processed.
C4_Witness ==
    /\ load_pc = "returned"
    /\ Len(new_files) = 3
    /\ raised = <<"none", "insert", "none">>
    /\ successful_files = 2
    /\ completed[3] = AllSteps
    /\ log_errors = {new_files[2]}

\* C5: under every interleaving of the pool's threads and every worker
\* bound, load_new_files returns the number of work items whose three
\* steps all completed without an exception.
C5_CountsCompletedItems ==
    load_pc = "returned" =>
        successful_files =
            Cardinality({i \in 1 .. Len(new_files) : completed[i] = AllSteps})

\* C5 witness: two threads, three items, one item failed and two were
\* counted.
C5_Witness ==
    /\ load_pc = "returned"
    /\ max_workers = 2
    /\ Len(new_files) = 3
    /\ successful_files = 2
    /\ \E i \in 1 .. 3 : results[i] = "false"

(***************************************************************************)
(* Claims about the pipeline.                                              *)
(***************************************************************************)
EventsOf(s, op) == {e.path : e \in {x \in events : x.stage = s /\ x.op = op}}

\* The data objects this run staged and the rows this run inserted.
StagedThisRun == UNION {EventsOf(s, "put") : s \in ExtractStages}

InsertedThisRun ==
    {r \in warehouse : r.run = pipe_run} \cup
    {r \in destination.rows : r.run = pipe_run}

\* C1: idempotence.  When the pipeline has run before with the same
\* configuration, the same date and the same remote sources, and no
\* external operation failed, a run that is over has staged no data
\* object and inserted no row.
C1_SecondRunAddsNothing ==
    (pipe_run >= 2 /\ RunOver /\ faults = 0) =>
        (StagedThisRun = {} /\ InsertedThisRun = {})

\* C2: every new file is loaded exactly once.  When the taxi load entry
\* point has ended in a run where no external operation failed, every
\* file staged under the taxi folder has its name in the provenance
\* column of the destination table, put there by exactly one insert.
C2_EveryNewFileLoadedOnce ==
    ("load" \in done_stages /\ faults = 0) =>
        \A n \in get_gcs_files(bucket) :
            Cardinality({r \in destination.rows : r.source_file = n}) = 1

\* C8: the staging existence gate.  When an extract stage has ended, no
\* planned item whose path held an object was fetched or put, the items
\* fetched are exactly the planned items whose path held no object, and
\* no put replaced an object.
C8_ExistenceGate ==
    \A s \in ExtractStages \cap done_stages :
        LET held == PlanPaths(s) \cap store_at_start[s]
        IN /\ EventsOf(s, "fetch") \cap held = {}
           /\ EventsOf(s, "put") \cap held = {}
           /\ EventsOf(s, "fetch") = PlanPaths(s) \ held
           /\ EventsOf(s, "overwrite") = {}

\* C10: every run of every stage, whether its body succeeded or failed,
\* has attempted to ship its log when it ends.
C10_LogShippedAtEnd ==
    \A s \in done_stages : EventsOf(s, "ship_log") # {}

\* C11: in every stage, when shipping the log fails, the log content is
\* printed as a last resort and the shipping failure does not leave the
\* entry point as an exception.
C11_ShipFailureSurfacesLog ==
    \A s \in done_stages :
        EventsOf(s, "ship_failed") # {} =>
            /\ EventsOf(s, "print_log") # {}
            /\ EventsOf(s, "ship_raised") = {}

\* C13: when the destination table does not exist, the existence check
\* returns the empty set instead of raising, the work list of the call is
\* every staged file, and the call goes on to process it; the weather
\* check answers a failed query with the empty set as well.
C13_MissingTableMeansNothingKnown ==
    /\ load_pc # "raised"
    /\ (load_pc = "pool" /\ next_item = 1 /\ ~destination.exists)
       => /\ query_raised
          /\ get_existing_files(destination, query_raised) = {}
          /\ Range(new_files) = StagedFiles
    /\ (load_pc = "returned" /\ query_raised /\ new_files = <<>>)
       => StagedFiles = {}
    /\ \A cfg \in WeatherConfigs :
          get_existing_weather_files(cfg, {}, TRUE) = {}

\* C13 witness: the table is missing, three files are staged, all three
\* are in the work list and a thread has started on the first.
C13_Witness ==
    /\ load_pc = "pool"
    /\ ~destination.exists
    /\ query_raised
    /\ Len(new_files) = 3
    /\ Range(new_files) = StagedFiles
    /\ next_item = 2

\* C14: when process_file has returned for a work item, with success or
\* with a failure at the temp-table load or at the transform-insert, that
\* item's temporary table no longer exists.
C14_TempTableAlwaysDropped ==
    load_pc = "returned" =>
        \A i \in 1 .. Len(new_files) : ~HasTemp(TempTableId(new_files[i]))

\* The work items a pool thread is in process_file for.
InProgress ==
    {i \in 1 .. Len(new_files) : started[i] > 0 /\ results[i] = "pending"}

BusyThreads == {w \in DOMAIN workers : workers[w].pc # "idle"}

\* C19: within one run of load_new_files, under every interleaving,
\* process_file is entered exactly once for each work item and by one
\* thread: no item is handed to two threads, none is processed twice,
\* and when the call returns none has been left out.
C19_EachItemOnce ==
    /\ \A i \in 1 .. Len(new_files) :
          /\ started[i] <= 1
          /\ results[i] # "pending" => started[i] = 1
          /\ Cardinality({w \in BusyThreads : workers[w].item = i})
                = IF i \in InProgress THEN 1 ELSE 0
    /\ load_pc = "returned" =>
          \A i \in 1 .. Len(new_files) :
              started[i] = 1 /\ results[i] # "pending"

\* C19 witness: three items and two threads; the call has returned and
\* each item was entered once.
C19_Witness ==
    /\ load_pc = "returned"
    /\ max_workers = 2
    /\ Len(new_files) = 3
    /\ started = <<1, 1, 1>>

\* C20: at every moment of a load_new_files run at most max_workers work
\* items are being processed.
C20_AtMostMaxWorkers ==
    /\ Cardinality(InProgress) <= max_workers
    /\ Cardinality(BusyThreads) <= max_workers

\* C20 witness: max_workers = 2, two items are in process_file and the
\* third waits for a free thread.
C20_Witness ==
    /\ load_pc = "pool"
    /\ max_workers = 2
    /\ Len(new_files) = 3
    /\ Cardinality(InProgress) = 2
    /\ started[3] = 0

\* The steps of process_file are taken in order for every item: the
\* insert after the item's temp load completed, the drop after its insert.
StepsInOrder ==
    /\ \A i \in 1 .. Len(new_files) :
          /\ "insert" \in completed[i] => "load" \in completed[i]
          /\ "drop" \in completed[i] => "insert" \in completed[i]
    /\ \A w \in DOMAIN workers :
          /\ workers[w].pc = "insert" => "load" \in completed[workers[w].item]
          /\ workers[w].pc = "drop" => "insert" \in completed[workers[w].item]

\* Every row this call inserted for a file holds the data that was loaded
\* from that file.
InsertReadsOwnLoad ==
    \A r \in destination.rows :
        (load_run > 0 /\ r.run = load_run) => r.data = r.source_file

\* C21: for every work item the transform-insert is issued only after the
\* item's temp-table load completed in the same process_file call, the
\* drop only after that insert completed, and the insert reads only the
\* temp table that was loaded for that item.
C21_ItemProtocolOrder == StepsInOrder /\ InsertReadsOwnLoad

\* C22: in a weather load run, for every configured table_id, the table
\* queried for the already-loaded files, the table provisioned and the
\* table every load appends to are one and the same table.
C22_OneWeatherTable ==
    (stage = "load_weather" /\ stage_pc \in {"check", "finally"}
     /\ table_ref # NoTable)
    => /\ QueriedTable(weather_config) = ProvisionedTable(weather_config)
       /\ table_ref = ProvisionedTable(weather_config)
       /\ \A r \in warehouse : r.run = pipe_run => r.table = table_ref

\* C23: in the extract stages a failure while processing one item (in
\* the existence check, the fetch or the put) stays a per-item failure:
\* when the stage has ended, every other planned item whose path held no
\* object has been attempted.
C23_ItemFailureContained ==
    \A s \in ExtractStages \cap done_stages :
        PlanPaths(s) \ store_at_start[s]
            \subseteq EventsOf(s, "fetch") \cup EventsOf(s, "item_raised")

\* C27: in a weather load run that reaches process_and_load_weather_data,
\* provisioning is performed once and before any append, and when the
\* table already exists provisioning issues no create-table operation.
C27_ProvisionOnceBeforeLoad ==
    /\ EventsOf("load_weather", "provision") \subseteq {[n |-> 1]}
    /\ EventsOf("load_weather", "append") # {}
          => EventsOf("load_weather", "provision") # {}
    /\ ("load_weather" \in done_stages
        /\ EventsOf("load_weather", "normalize") # {})
          => EventsOf("load_weather", "provision") = {[n |-> 1]}
    /\ \A c \in EventsOf("load_weather", "create_table") : ~c.existed

\* C28: when the creation of the dataset or of the table fails during
\* provisioning, no file is normalized or appended in that run, the error
\* reaches the caller of the entry point, and the shipping of the log is
\* still attempted.
C28_ProvisioningFailureIsFatal ==
    EventsOf("load_weather", "create_failed") # {}
    => /\ EventsOf("load_weather", "normalize") = {}
       /\ EventsOf("load_weather", "append") = {}
       /\ \A r \in warehouse : r.run # pipe_run
       /\ "load_weather" \in done_stages
             => /\ "load_weather" \in failed_stages
                /\ EventsOf("load_weather", "ship_log") # {}

\* C28 witness: a new weather file was waiting, the creation failed, the
\* stage has ended as failed with its log in the store and nothing
\* appended.
C28_Witness ==
    /\ "load_weather" \in done_stages
    /\ "load_weather" \in failed_stages
    /\ EventsOf("load_weather", "create_failed") # {}
    /\ weather_files # <<>>
    /\ LogObject("load_weather", pipe_run) \in bucket
    /\ warehouse = {}

\* C33: when the final row-count request of load_new_files fails, the
\* failure is logged, load_new_files returns all the same, and the value
\* it returns is the number of items process_file reported as loaded.
C33_FinalCheckFailureNotFatal ==
    final_check = "error_logged" =>
        /\ load_pc = "returned"
        /\ successful_files =
              Cardinality({i \in 1 .. Len(results) : results[i] = "true"})

\* C33 witness: a call with two items has returned 2 after its final
\* row-count request failed.
C33_Witness ==
    /\ final_check = "error_logged"
    /\ load_pc = "returned"
    /\ Len(new_files) = 2
    /\ successful_files = 2

\* The rows this call has inserted with the file's name in the provenance
\* column.
InsertedFor(file_name) ==
    {r \in destination.rows :
        r.source_file = file_name /\ load_run > 0 /\ r.run = load_run}

\* C34: an item for which process_file returned False has contributed no
\* row to the destination table, whichever step failed.
C34_FailedItemInsertedNothing ==
    \A i \in 1 .. Len(new_files) :
        results[i] = "false" => InsertedFor(new_files[i]) = {}

\* C35: a file whose name the destination table's provenance column
\* already holds when load_new_files is called is not inserted again by
\* that call, whatever the provenance query does.
C35_KnownFileNeverReinserted ==
    \A f \in known_at_call : InsertedFor(f) = {}

\* C36: within one run of load_new_files two different work items have
\* different temporary tables, so no thread truncates, reads or drops a
\* temporary table another thread is using.
C36_TempTablesDistinct ==
    \A i, j \in 1 .. Len(new_files) :
        i # j => TempTableId(new_files[i]) # TempTableId(new_files[j])

\* The objects get_gcs_files lists: those under the folder prefix whose
\* name ends with the extension.
ListedObjects ==
    {b \in bucket : /\ IsUnderPrefix(b.folder, load_gcs_folder)
                    /\ EndsWith(b.name, load_file_extension)}

\* C39: every work item of the taxi load names an object of the store:
\* the URI process_file loads from is the path of a listed object, and
\* when nothing is known yet the listed objects and the work items are
\* as many.
C39_WorkItemsNameObjects ==
    load_pc = "pool" =>
        /\ \A i \in 1 .. Len(new_files) : Uri(new_files[i]) \in ListedObjects
        /\ known_at_call = {} =>
              Len(new_files) = Cardinality(ListedObjects)

(***************************************************************************)
(* Claims about the entry points.                                          *)
(***************************************************************************)
ExternalOps == {"client", "store", "warehouse", "http"}

\* C12: when a required key is absent from the configuration an entry
\* point has loaded, the run ends before any I/O: no client is built, no
\* store, warehouse or HTTP operation is issued, a message is printed and
\* the entry point returns without raising.
C12_FailFastOnMissingKey ==
    (/\ "load_config" \in entry_ops
     /\ ~(RequiredParams(entry_stage) \subseteq entry_keys))
    => /\ entry_pc = "ended"
       /\ entry_result = "returned"
       /\ entry_ops \cap ExternalOps = {}
       /\ entry_ops \cap {"print_missing", "print_error"} # {}

\* C12 witness: extract.main, started with --config, has returned after
\* printing the missing keys of a configuration without bucket_name.
C12_Witness ==
    /\ entry_stage = "extract"
    /\ entry_call = CliCall(TRUE, 0)
    /\ "bucket_name" \notin entry_keys
    /\ entry_pc = "ended"
    /\ entry_result = "returned"
    /\ entry_ops = {"load_config", "print_missing"}

\* C18: a load run started with --workers N processes its work set with
\* a pool of exactly N workers.
C18_PoolSizeIsWorkersOption ==
    (/\ entry_stage = "load"
     /\ entry_pc = "ended"
     /\ entry_call.mode = "cli"
     /\ entry_call.config
     /\ entry_call.workers > 0)
    => entry_pool = entry_call.workers

\* C31: an entry point that the scheduler's task has called with the
\* keyword config_path starts its stage: once the call has ended with a
\* configuration that holds every required key, the stage body has run.
C31_SchedulerCallRunsStage ==
    (/\ entry_call.mode = "scheduler"
     /\ entry_pc = "ended"
     /\ RequiredParams(entry_stage) \subseteq entry_keys)
    => /\ "load_config" \in entry_ops
       /\ "store" \in entry_ops

(***************************************************************************)
(* Claims about the fetch of one item.                                     *)
(***************************************************************************)
\* The item's file was fetched as a readable Parquet file, a column filter
\* is configured, and none of its columns is in the file.
FilterMatchesNothing ==
    /\ fetch_in.response = "200"
    /\ fetch_in.parquet_url
    /\ fetch_in.selected # {}
    /\ fetch_in.body.kind = "parquet"
    /\ fetch_in.selected \cap fetch_in.body.columns = {}

\* C15: when the configured columns and the columns of a fetched Parquet
\* file have nothing in common, fetch_and_filter_file logs a warning and
\* returns the full body, and process_files uploads that body: the item
\* is staged unfiltered unless the upload itself raises.
C15_EmptyFilterFallsBack ==
    (FilterMatchesNothing /\ fetch_pc # "start")
    => /\ fetch_content = fetch_in.body
       /\ fetch_log = {"warning_no_columns"}
       /\ fetch_pc = "done"
          => /\ fetch_put # "none"
             /\ fetch_put = "stored"
                => fetch_stored = fetch_in.body /\ files_processed = 1

\* C15 witness: column 1 is selected, the file has only column 2, and the
\* whole file is in the store.
C15_Witness ==
    /\ fetch_in.selected = {1}
    /\ fetch_in.body = ParquetBody({2})
    /\ FilterMatchesNothing
    /\ fetch_pc = "done"
    /\ fetch_stored = ParquetBody({2})
    /\ "warning_no_columns" \in fetch_log

(***************************************************************************)
(* Claims about clean_numeric_data.                                        *)
(***************************************************************************)
\* C16: in a numeric weather column, clean_numeric_data turns every
\* sentinel string (M, NA, None, null, the empty string, nan) into a null,
\* never into a number; every other string that is not a number becomes a
\* null too, and every number, given as a number or as its text, keeps
\* its value.  No step raises, and no cell is added or lost.
C16_SentinelsBecomeNull ==
    (clean_pc = "done" /\ clean_name \in numeric_columns)
    => /\ Len(clean_col) = Len(clean_in)
       /\ \A i \in 1 .. Len(clean_in) :
             IF clean_in[i].kind \in {"num", "numeral"}
             THEN clean_col[i] = NumCell(clean_in[i].num)
             ELSE clean_col[i] = NaNCell

\* C16 witness: the column "1", "M" of tmpf is cleaned to 1, null.
C16_Witness ==
    /\ clean_pc = "done"
    /\ clean_name = "tmpf"
    /\ clean_in = <<NumeralCell(1), WordCell("M")>>
    /\ clean_col = <<NumCell(1), NaNCell>>

(***************************************************************************)
(* Claims about the task graph.                                            *)
(***************************************************************************)
Started(t) == task_tries[t] > 0

Succeeded(t) == task_state[t] = "success"

\* C17: dbt_run starts only after load_taxi and load_weather have both
\* completed, and each load task starts only after the extract task of
\* its dataset has completed.
C17_TransformAfterLoads ==
    /\ Started("dbt_run") => Succeeded("load_taxi") /\ Succeeded("load_weather")
    /\ Started("load_taxi") => Succeeded("extract_taxi")
    /\ Started("load_weather") => Succeeded("extract_weather")

\* C17 witness: dbt_run is running, both loads and both extracts have
\* succeeded, and the taxi load needed a retry.
C17_Witness ==
    /\ task_state["dbt_run"] = "running"
    /\ \A t \in {"extract_taxi", "extract_weather", "load_taxi",
                  "load_weather"} : Succeeded(t)
    /\ task_tries["load_taxi"] = 2

\* What the caller receives for a response that is an error other than
\* 404: another status, or a transport failure.
ErrorOutcomes ==
    {fetch_and_filter_file(in, FALSE).content :
        in \in {x \in FetchInputs : x.response \in {"500", "exception"}}}

\* Nothing was uploaded or counted for the item.
NothingStaged ==
    fetch_put = "none" /\ fetch_stored = NoContent /\ files_processed = 0

\* C25: what fetch_and_filter_file returns for an HTTP 404 is an outcome
\* the caller can tell apart from what it returns for any other non-200
\* status or a transport failure; in both cases nothing is staged for the
\* file in this run.
C25_AbsentDistinctFromError ==
    /\ (fetch_pc # "start" /\ fetch_in.response = "404")
          => fetch_content \notin ErrorOutcomes
    /\ (fetch_pc = "done" /\ fetch_in.response # "200") => NothingStaged

\* C26: for every HTTP 200 response, a failure during column filtering
\* (reading the schema, reading the columns or re-encoding) makes
\* fetch_and_filter_file return the unfiltered response body: never the
\* absent outcome, and the caller handles the item as any fetched body.
C26_FilterFailureFallsBack ==
    (fetch_pc # "start" /\ fetch_in.response = "200"
     /\ "error_filter" \in fetch_log)
    => /\ fetch_content = fetch_in.body
       /\ fetch_content # NoContent
       /\ (fetch_pc = "done" /\ Truthy(fetch_in.body)) => fetch_put # "none"
       /\ fetch_put = "stored" => fetch_stored = fetch_in.body

\* C26 witness: columns 1 and 2 are in the file, column 1 is selected,
\* reading the columns raised, and the whole file is in the store.
C26_Witness ==
    /\ fetch_in.response = "200"
    /\ fetch_in.parquet_url
    /\ fetch_in.selected = {1}
    /\ fetch_in.body = ParquetBody({1, 2})
    /\ "error_filter" \in fetch_log
    /\ fetch_pc = "done"
    /\ fetch_stored = ParquetBody({1, 2})

(***************************************************************************)
(* Claims about get_date_ranges.                                           *)
(***************************************************************************)
MonthIndex(d) == Ym(d.year, d.month)

DateNotAfter(a, b) == ~DateBefore(b, a)

\* The day after d.
NextDay(d) ==
    IF d.day < DaysIn(d.year, d.month) THEN Date(d.year, d.month, d.day + 1)
    ELSE FirstOfNextMonth(d)

\* C29: get_date_ranges returns exactly one window per calendar month
\* from the month of the start date through the month of now, for every
\* start date not after now, and no window for a start date after now.
C29_OneWindowPerMonth ==
    dr_pc = "returned" =>
        LET n == IF DateNotAfter(dr_start, dr_now.date)
                 THEN MonthIndex(dr_now.date) - MonthIndex(dr_start) + 1
                 ELSE 0
        IN /\ Len(date_ranges) = n
           /\ \A i \in 1 .. Len(date_ranges) :
                 MonthIndex(date_ranges[i].start_date)
                     = MonthIndex(dr_start) + i - 1

\* C30: every window lies within one calendar month, starts no later than
\* it ends and ends no later than now; the first window starts at the
\* start date, each later one on the first day of the month after the
\* window before it, and consecutive windows neither overlap nor leave a
\* day out.
C30_WindowsTileTheMonths ==
    \A i \in 1 .. Len(date_ranges) :
        LET w == date_ranges[i]
        IN /\ MonthIndex(w.start_date) = MonthIndex(w.end_date)
           /\ w.year_month = <<w.start_date.year, w.start_date.month>>
           /\ DateNotAfter(w.start_date, w.end_date)
           /\ DateNotAfter(w.end_date, dr_now.date)
           /\ i = 1 => w.start_date = dr_start
           /\ i > 1 =>
                 /\ w.start_date = FirstOfNextMonth(date_ranges[i - 1].start_date)
                 /\ w.start_date = NextDay(date_ranges[i - 1].end_date)

\* C30 witness: from the 15th of a month to the 15th two months later,
\* three windows, the last one cut at now.
C30_Witness ==
    /\ dr_pc = "returned"
    /\ dr_start = Date(MinYear, 1, 15)
    /\ dr_now = [date |-> Date(MinYear, 3, 15), past_midnight |-> TRUE]
    /\ Len(date_ranges) = 3
    /\ date_ranges[1].end_date = Date(MinYear, 1, 31)
    /\ date_ranges[3].start_date = Date(MinYear, 3, 1)
    /\ date_ranges[3].end_date = Date(MinYear, 3, 15)

(***************************************************************************)
(* Claims about the weather load, file by file.                            *)
(***************************************************************************)
RowsOfRun == {r \in wl_rows : r.run = wl_run}

Logged(level, what, name) == LogLine(level, what, name) \in wl_log

\* The file was given up: its normalization failed, it was empty, or its
\* append failed.
GivenUp(name) ==
    \/ Logged("error", "process", name)
    \/ Logged("warning", "empty", name)
    \/ Logged("error", "load", name)

\* C32: in process_and_load_weather_data a file whose normalization
\* fails, which is empty or whose append fails is logged and not counted,
\* the files after it are still processed, and the value returned is the
\* number of files whose append succeeded; a file whose name is among
\* the known files is neither normalized nor appended.
C32_WeatherFileFailureContained ==
    wl_pc \in {"loop", "returned"} =>
        /\ wl_files_processed = Cardinality(RowsOfRun)
        /\ \A i \in 1 .. Len(wl_new_files) :
              LET b == wl_new_files[i]
              IN /\ (i < wl_i /\ b.content # "rows") => GivenUp(b.name)
                 /\ GivenUp(b.name) =>
                       LoadedRow(b.name, wl_run) \notin wl_rows
                 /\ wl_pc = "returned" =>
                       \/ GivenUp(b.name)
                       \/ Logged("info", "known", b.name)
                       \/ /\ Logged("info", "load", b.name)
                          /\ LoadedRow(b.name, wl_run) \in wl_rows
        /\ \A b \in wl_store :
              b.name \in wl_existing =>
                  /\ LoadedRow(b.name, wl_run) \notin wl_rows
                  /\ \A l \in wl_log :
                        l.name = b.name => l.what = "known"

\* C32 witness: a run over three new files has returned 1: the append of
\* the first file failed, a later file is empty or unreadable, and a file
\* after the failed one was appended.
C32_Witness ==
    /\ wl_pc = "returned"
    /\ Len(wl_new_files) = 3
    /\ wl_files_processed = 1
    /\ Logged("error", "load", wl_new_files[1].name)
    /\ \E i \in 2 .. 3 :
          /\ wl_new_files[i].content # "rows"
          /\ GivenUp(wl_new_files[i].name)
    /\ \E i \in 2 .. 3 :
          LoadedRow(wl_new_files[i].name, wl_run) \in wl_rows

\* C38: after a weather load run in which no operation failed, the next
\* run over the same store finds no new file, whatever the folder holds.
C38_WeatherLoadConverges ==
    (/\ wl_run > 1
     /\ wl_clean[wl_run - 1]
     /\ wl_pc \in {"loop", "returned"}
     /\ wl_faults = 0)
    => wl_new_files = <<>>

(***************************************************************************)
(* Claims about the staged weather windows.                                *)
(***************************************************************************)
\* The first and the last day a staged object covers, as its name says.
FirstDay(o) == o.file_name[3].num
LastDay(o) == o.file_name[5].num

Overlap(a, b) == FirstDay(a) <= LastDay(b) /\ FirstDay(b) <= LastDay(a)

\* C37: over any sequence of extract_weather runs at advancing dates, no
\* two different staged objects of a station cover a common day, and a
\* calendar month is staged under one path only.
C37_StagedWindowsDisjoint ==
    \A a, b \in ws_store :
        a # b => /\ ~Overlap(a, b)
                 /\ a.year_month # b.year_month

====
